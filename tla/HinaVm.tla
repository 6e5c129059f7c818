------------------------------- MODULE HinaVm -------------------------------
(***************************************************************************)
(* HinaVM (kernel/hinavm.c): a task whose program is a sequence of         *)
(* instructions that the kernel interprets.  hinavm_run is the body of the *)
(* task number VM; it runs in the kernel, with the lock and with           *)
(* interrupts off, until it blocks.  The other tasks are native: they call *)
(* it as servers/hello_hinavm does or wait for messages, and the timer     *)
(* preempts them.                                                          *)
(*                                                                         *)
(* One CPU, nobody is destroyed and nobody is notified: what these do to   *)
(* IPC is in module Kernel.  A message is its type, its source and one     *)
(* word, which stand for its bytes.  Printing is left out.                 *)
(***************************************************************************)
EXTENDS Integers, Sequences, FiniteSets, Lists

CONSTANTS
    Programs,           \* names of programs, of which hinavm_create gets one
    Bits,               \* width of a word, 32
    ImmBits,            \* width of an immediate operand, 20
    NumRegs,            \* 16
    VM,                 \* number of the HinaVM task
    Natives,            \* numbers of the other tasks
    Pager,              \* the one that created VM
    Values,             \* what they ping with
    MaxCalls            \* system calls of each

WORD == 2^Bits
Words == 0 .. WORD - 1
IPC_ANY == 0
IPC_DENY == WORD - 1
FROM_KERNEL == WORD - 1
Undefined == WORD - 1                   \* memset of the labels to 0xff
Failed == WORD - 1                      \* an error of ipc()
EXCEPTION_MSG == 1
PING_MSG == 9
PING_REPLY_MSG == 10
Tasks == Natives \cup {VM}
Idle == 0

VARIABLES
    insts, pc, regs,    \* the program and the registers of hinavm_run
    at,                 \* what a task does when it has the CPU
    blocked,            \* state is TASK_BLOCKED
    wait_for, senders, m,
    out,                \* copied_m of a task that is blocked in a send, for whom,
                        \* and what the task does after it
    cpu, runqueue,
    calls,              \* system calls so far
    sent, got,          \* history: the last ping of a task, and what it received last
    told                \* history: Pager has been sent the exception of VM

vmVars == <<pc, regs>>
ipcVars == <<at, blocked, wait_for, senders, m, out, told>>
natVars == <<calls, sent, got>>
vars == <<insts, vmVars, ipcVars, natVars, cpu, runqueue>>

Message == [type : Words, src : Words, value : Words]
Nothing == [type |-> 0, src |-> 0, value |-> 0]
-----------------------------------------------------------------------------
(* Instructions: the fields of union hinavm_inst, as the macros fill them. *)

I_MOVI(a, imm) == [op |-> "MOVI", a |-> a, imm |-> imm % 2^ImmBits]
I_MOV(a, b) == [op |-> "MOV", a |-> a, b |-> b]
I_BINOP(op, a, b, c) == [op |-> op, a |-> a, b |-> b, c |-> c]
I_LABEL(l) == [op |-> "LABEL", l |-> l]
I_JMP(l) == [op |-> "JMP", l |-> l]
I_JMP_IF(l, a) == [op |-> "JMP_IF", l |-> l, a |-> a]

\* Loads and stores of a part of a field of the message: all of it (LDM32), a
\* half (LDM16) or a quarter (LDM8).
I_MSG(op, part, a, field) == [op |-> op, w |-> Bits \div part, a |-> a, field |-> field]
I_IPC(op, a, b) == [op |-> op, a |-> a, b |-> b]
I_OP(op) == [op |-> op]

\* The program of servers/hello_hinavm, operands as written there.
pong == <<I_LABEL(0), I_MOVI(0, IPC_ANY), I_IPC("RECV", 0, 0), I_BINOP("NE", 0, 0, 0),
          I_JMP_IF(1, 0), I_MSG("LDM", 1, 0, "value"), I_MSG("LDM", 2, 1, "src"), I_OP("PRINT"),
          I_MOVI(0, PING_REPLY_MSG), I_MSG("STM", 1, 0, "type"), I_MOVI(0, 42),
          I_MSG("STM", 1, 0, "value"), I_IPC("REPLY", 0, 1), I_JMP(0), I_LABEL(1), I_OP("PRINT"),
          I_JMP(0)>>

\* Answers a ping with its value, by way of all of the arithmetic:
\* x / -3 * -3 + x % -3, changed twice by XOR, and put together of two halves.
echo == <<I_LABEL(0), I_MOVI(0, IPC_ANY), I_IPC("RECV", 0, 0), I_MSG("LDM", 1, 2, "value"),
          I_MSG("LDM", 4, 1, "src"), I_MOVI(3, -3), I_BINOP("DIV", 4, 2, 3),
          I_BINOP("MOD", 5, 2, 3), I_BINOP("MUL", 4, 4, 3), I_BINOP("ADD", 4, 4, 5),
          I_BINOP("XOR", 4, 4, 3), I_BINOP("XOR", 4, 4, 3), I_MOVI(3, 4),
          I_BINOP("SHR", 5, 4, 3), I_BINOP("SHL", 5, 5, 3), I_MOVI(3, 15),
          I_BINOP("AND", 4, 4, 3), I_BINOP("OR", 4, 4, 5), I_MSG("STM", 1, 4, "value"),
          I_MOVI(0, PING_REPLY_MSG), I_MSG("STM", 2, 0, "type"), I_IPC("REPLY", 0, 1), I_JMP(0)>>

\* Pings task 1, counts down from 2, and exits.
client == <<I_MOVI(0, 1), I_MOVI(1, PING_MSG), I_MSG("STM", 1, 1, "type"), I_IPC("SEND", 2, 0),
            I_MOVI(3, 2), I_MOVI(4, 1), I_LABEL(2), I_BINOP("SUB", 3, 3, 4),
            I_BINOP("LE", 5, 4, 3), I_JMP_IF(2, 5), I_OP("NOP"), I_OP("EXIT")>>

\* Exits by a jump to a label without a definition, an opcode and a task that
\* do not exist.
stray == <<I_MOVI(0, -1), I_MOV(1, 0), I_BINOP("LT", 2, 1, 3), I_BINOP("EQ", 2, 2, 3),
           I_JMP_IF(0, 2), I_JMP(5)>>
illegal == <<I_OP("ILLEGAL")>>
nobody == <<I_MOVI(0, 9), I_IPC("SEND", 1, 0)>>
self == <<I_MOVI(0, VM), I_IPC("SEND", 1, 0), I_OP("EXIT")>>

spin == <<I_LABEL(0), I_OP("NOP"), I_JMP(0)>>

\* The array of instructions of each.
Code == [pong |-> pong, echo |-> echo, client |-> client, stray |-> stray, illegal |-> illegal,
         nobody |-> nobody, self |-> self, spin |-> spin]

HinaVmAssumption ==
    /\ Bits \in Nat /\ ImmBits \in Nat /\ NumRegs \in Nat /\ NumRegs > 5
    /\ {WORD, 2^ImmBits, 2^(ImmBits - 1), 2^(Bits \div 2)} \subseteq Nat
    /\ 42 < 2^(ImmBits - 1) /\ 2^(ImmBits - 1) < 2^ImmBits /\ 2^ImmBits =< WORD
    /\ 0 < 2^(Bits \div 2) /\ 2^(Bits \div 2) < WORD
    /\ Programs \subseteq DOMAIN Code /\ Values \subseteq Words /\ MaxCalls \in Nat
    /\ Tasks \subseteq 1 .. 2^(Bits \div 2) - 1 /\ VM \notin Natives /\ Pager \in Natives

TypeOK ==
    /\ insts \in {Code[p] : p \in Programs} /\ pc \in 0 .. Undefined /\ regs \in [0 .. NumRegs - 1 -> Words]
    /\ at \in [Tasks -> {"run", "deliver", "receive", "taken", "exit"}]
    /\ blocked \in [Tasks -> BOOLEAN] /\ wait_for \in [Tasks -> Tasks \cup {IPC_ANY, IPC_DENY}]
    /\ senders \in [Tasks -> Seq(Tasks)] /\ m \in [Tasks -> Message]
    /\ cpu \in Tasks \cup {Idle} /\ runqueue \in Seq(Tasks)
    /\ calls \in [Natives -> 0 .. MaxCalls] /\ got \in [Natives -> Message]

\* hinavm_create has put VM into the run queue, somewhere among the others.
Init ==
    /\ insts \in {Code[p] : p \in Programs} /\ pc = 0 /\ regs = [r \in 0 .. NumRegs - 1 |-> 0]
    /\ at = [t \in Tasks |-> "run"] /\ blocked = [t \in Tasks |-> FALSE]
    /\ wait_for = [t \in Tasks |-> IPC_DENY] /\ senders = [t \in Tasks |-> <<>>]
    /\ m = [t \in Tasks |-> Nothing] /\ out = [t \in Tasks |-> <<>>]
    /\ cpu = Idle
    /\ runqueue \in {q \in [1 .. Cardinality(Tasks) -> Tasks] : {q[i] : i \in DOMAIN q} = Tasks}
    /\ calls = [t \in Natives |-> 0] /\ sent = [t \in Natives |-> 0]
    /\ got = [t \in Natives |-> Nothing] /\ told = FALSE
-----------------------------------------------------------------------------
(* Scheduler and IPC, for the task c that has the CPU.  The kernel is not  *)
(* interrupted: a task in it keeps the CPU until it calls task_switch.     *)

\* task_switch, with the run queue q.
switch_from(q) ==
    IF q = <<>> THEN cpu' = Idle /\ runqueue' = q
                ELSE cpu' = Head(q) /\ runqueue' = Tail(q)

idle_task ==
    /\ cpu = Idle /\ runqueue # <<>> /\ switch_from(runqueue)
    /\ UNCHANGED <<insts, vmVars, ipcVars, natVars>>

\* As preempt, but t goes to the front of the queue.
preempt_front(t) ==
    /\ cpu = t /\ at[t] = "run" /\ runqueue # <<>> /\ switch_from(<<t>> \o runqueue)
    /\ UNCHANGED <<insts, vmVars, ipcVars, natVars>>

\* The quantum of a task in user mode is used up.
preempt(t) ==
    /\ cpu = t /\ at[t] = "run" /\ runqueue # <<>> /\ switch_from(Append(runqueue, t))
    /\ UNCHANGED <<insts, vmVars, ipcVars, natVars>>

\* memcpy to the message of d, and task_resume.
Hand(d, msg) ==
    /\ m' = [m EXCEPT ![d] = msg] /\ blocked' = [blocked EXCEPT ![d] = FALSE]
    /\ runqueue' = Append(runqueue, d)
    /\ told' = (told \/ (d = Pager /\ msg.type = EXCEPTION_MSG))

\* As Waits, without IPC_ANY.
WaitsFor(d, c) == blocked[d] /\ wait_for[d] = c

Waits(d, c) == blocked[d] /\ wait_for[d] \in {IPC_ANY, c}

\* send_message succeeds at once.
send_ready(c, d, msg, next) ==
    /\ Waits(d, c) /\ Hand(d, msg)
    /\ at' = [at EXCEPT ![c] = next]
    /\ UNCHANGED <<wait_for, senders, out, cpu>>

\* It blocks, unless d is blocked in a send to c.
Crossed(c, d) == \E i \in DOMAIN senders[c] : senders[c][i] = d

send_block(c, d, msg, next) ==
    /\ ~Waits(d, c) /\ ~Crossed(c, d)
    /\ senders' = [senders EXCEPT ![d] = Append(@, c)] /\ blocked' = [blocked EXCEPT ![c] = TRUE]
    /\ at' = [at EXCEPT ![c] = "deliver"]
    /\ out' = [out EXCEPT ![c] = <<d, msg, next>>]
    /\ switch_from(runqueue)
    /\ UNCHANGED <<wait_for, m, told>>

\* Its end, when d has taken c from its queue.
deliver(c) ==
    /\ cpu = c /\ at[c] = "deliver"
    /\ Hand(out[c][1], out[c][2])
    /\ at' = [at EXCEPT ![c] = out[c][3]] /\ out' = [out EXCEPT ![c] = <<>>]
    /\ UNCHANGED <<insts, vmVars, natVars, wait_for, senders, cpu>>

\* The places in the queue of c of tasks that it accepts.
Accepted(c, src) == {i \in DOMAIN senders[c] : src \in {IPC_ANY, senders[c][i]}}

\* As Left: the sender is not removed.
NotLeft(c, s) == senders[c]

\* The queue of c without s.
Left(c, s) == Without(senders[c], s)

\* recv_message as far as task_switch: it waits for the first one that it accepts.
recv_message(c, src) ==
    /\ at' = [at EXCEPT ![c] = "taken"] /\ UNCHANGED <<m, out, told>>
    /\ \/ /\ Accepted(c, src) = {}
          /\ wait_for' = [wait_for EXCEPT ![c] = src] /\ blocked' = [blocked EXCEPT ![c] = TRUE]
          /\ switch_from(runqueue) /\ UNCHANGED senders
       \/ \E i \in Accepted(c, src) :
            LET s == senders[c][i]
            IN /\ \A j \in Accepted(c, src) : i =< j
               /\ senders' = [senders EXCEPT ![c] = Left(c, s)]
               /\ wait_for' = [wait_for EXCEPT ![c] = s]
               /\ blocked' = [blocked EXCEPT ![s] = FALSE, ![c] = TRUE]
               /\ switch_from(Append(runqueue, s))

\* Its end; a native task copies the message.
taken(c) ==
    /\ cpu = c /\ at[c] = "taken"
    /\ wait_for' = [wait_for EXCEPT ![c] = IPC_DENY] /\ at' = [at EXCEPT ![c] = "run"]
    /\ got' = [t \in Natives |-> IF t = c THEN m[c] ELSE got[t]]
    /\ UNCHANGED <<insts, vmVars, blocked, senders, m, out, told, calls, sent, cpu, runqueue>>
-----------------------------------------------------------------------------
(* hinavm_run.                                                             *)

LabelDefs(l) == {i \in DOMAIN insts : insts[i] = I_LABEL(l)}

\* The instruction after the last definition of the label; positions from 0.
labels(l) ==
    IF LabelDefs(l) = {} THEN Undefined
    ELSE CHOOSE i \in LabelDefs(l) : \A j \in LabelDefs(l) : j =< i

Signed(w, bits) == IF w >= 2^(bits - 1) THEN w - 2^bits ELSE w
Truth(b) == IF b THEN 1 ELSE 0
Magnitude(n) == IF n < 0 THEN -n ELSE n

\* As Quotient, rounded down.
FloorQuotient(x, y) == IF y > 0 THEN x \div y ELSE (-x) \div (-y)

\* Division of C, towards zero.
Quotient(x, y) == (IF (x < 0) = (y < 0) THEN 1 ELSE -1) * (Magnitude(x) \div Magnitude(y))

TwoBits == (0 .. 1) \X (0 .. 1)

\* The word whose bits are f of the bits of x and y.
EachBit(x, y, f) ==
    LET low[n \in Nat] ==
            IF n = 0 THEN 0
            ELSE LET i == 2^(n - 1)
                 IN low[n - 1] + i * f[<<(x \div i) % 2, (y \div i) % 2>>]
    IN low[Bits]

\* The results an instruction may have; any, where C leaves it undefined.
\* RISC-V's remainder of a division that overflows is 0.
Result(op, x, y) ==
    LET sx == Signed(x, Bits)
        sy == Signed(y, Bits)
    IN CASE op = "ADD" -> {(sx + sy) % WORD}
         [] op = "SUB" -> {(sx - sy) % WORD}
         [] op = "MUL" -> {(sx * sy) % WORD}
         [] op = "DIV" -> IF y = 0 THEN Words ELSE {Quotient(sx, sy) % WORD}
         [] op = "MOD" -> IF y = 0 THEN Words
                          ELSE {((IF sx < 0 THEN -1 ELSE 1) * (Magnitude(sx) % Magnitude(sy))) % WORD}
         [] op = "SHR" -> IF y >= Bits THEN Words ELSE {x \div 2^y}
         [] op = "SHL" -> IF y >= Bits THEN Words ELSE {(x * 2^y) % WORD}
         [] op = "AND" -> {EachBit(x, y, [bit \in TwoBits |-> bit[1] * bit[2]])}
         [] op = "OR" -> {EachBit(x, y, [bit \in TwoBits |-> bit[1] + bit[2] - bit[1] * bit[2]])}
         [] op = "XOR" -> {EachBit(x, y, [bit \in TwoBits |-> (bit[1] + bit[2]) % 2])}
         [] op = "EQ" -> {Truth(sx = sy)}
         [] op = "NE" -> {Truth(sx # sy)}
         [] op = "LT" -> {Truth(sx < sy)}
         [] op = "LE" -> {Truth(sx =< sy)}

Binops == {"ADD", "SUB", "MUL", "DIV", "MOD", "SHR", "SHL", "AND", "OR", "XOR", "EQ", "NE", "LT",
           "LE"}
Opcodes == Binops \cup {"MOVI", "MOV", "LABEL", "JMP", "JMP_IF", "LDM", "STM", "PRINT", "SEND",
                        "REPLY", "RECV", "EXIT", "NOP"}

inst == insts[pc + 1]
Interprets == cpu = VM /\ at[VM] = "run"
At(ops) == Interprets /\ pc < Len(insts) /\ inst.op \in ops
Set(a, v) == regs' = [regs EXCEPT ![a] = v]

compute ==
    /\ At(Binops \cup {"MOVI", "MOV"})
    /\ \E v \in CASE inst.op = "MOVI" -> {Signed(inst.imm, ImmBits) % WORD}
                  [] inst.op = "MOV" -> {regs[inst.b]}
                  [] OTHER -> Result(inst.op, regs[inst.b], regs[inst.c]) : Set(inst.a, v)
    /\ pc' = pc + 1
    /\ UNCHANGED <<insts, ipcVars, natVars, cpu, runqueue>>

control ==
    /\ At({"LABEL", "NOP", "PRINT", "JMP", "JMP_IF"})
    /\ pc' = IF inst.op = "JMP" \/ (inst.op = "JMP_IF" /\ regs[inst.a] # 0)
             THEN labels(inst.l) ELSE pc + 1
    /\ UNCHANGED <<insts, regs, ipcVars, natVars, cpu, runqueue>>

\* The field of the message with its low w bits replaced.
Stored(field, w, v) == (m[VM][field] \div 2^w) * 2^w + (v % 2^w)

message ==
    /\ At({"LDM", "STM"})
    /\ \/ inst.op = "LDM" /\ Set(inst.a, m[VM][inst.field] % 2^inst.w) /\ UNCHANGED m
       \/ /\ inst.op = "STM"
          /\ m' = [m EXCEPT ![VM][inst.field] = Stored(inst.field, inst.w, regs[inst.a])]
          /\ UNCHANGED regs
    /\ pc' = pc + 1
    /\ UNCHANGED <<insts, at, blocked, wait_for, senders, out, told, natVars, cpu, runqueue>>

\* What VM sends comes from the kernel.
FromVM == [m[VM] EXCEPT !.src = FROM_KERNEL]

\* The result of an instruction that sends is set before it blocks: no one
\* looks at it until VM goes on.
send ==
    /\ At({"SEND", "REPLY"}) /\ regs[inst.b] \in Tasks /\ pc' = pc + 1
    /\ \/ send_ready(VM, regs[inst.b], FromVM, "run") /\ Set(inst.a, 0)
       \/ /\ inst.op = "SEND" /\ regs[inst.b] # VM
          /\ send_block(VM, regs[inst.b], FromVM, "run") /\ Set(inst.a, 0)
       \/ /\ ~Waits(regs[inst.b], VM)
          /\ inst.op = "REPLY" \/ regs[inst.b] = VM \/ Crossed(VM, regs[inst.b])
          /\ Set(inst.a, Failed) /\ UNCHANGED <<ipcVars, cpu, runqueue>>
    /\ UNCHANGED <<insts, natVars>>

recv ==
    /\ At({"RECV"}) /\ recv_message(VM, regs[inst.b])
    /\ pc' = pc + 1 /\ Set(inst.a, 0)
    /\ UNCHANGED <<insts, natVars>>

\* task_exit as far as the message to the pager, for EXIT, after the end of the
\* program or a jump to a label without a definition, and for an opcode or a
\* task that does not exist.
Exception == [type |-> EXCEPTION_MSG, src |-> FROM_KERNEL, value |-> VM]

task_exit ==
    /\ \/ Interprets /\ pc >= Len(insts)
       \/ At({"EXIT"})
       \/ At({inst.op} \ Opcodes)
       \/ At({"SEND", "REPLY"}) /\ regs[inst.b] \notin Tasks
    /\ \/ send_ready(VM, Pager, Exception, "exit")
       \/ send_block(VM, Pager, Exception, "exit")
       \/ /\ ~Waits(Pager, VM) /\ Crossed(VM, Pager) /\ at' = [at EXCEPT ![VM] = "exit"]
          /\ UNCHANGED <<blocked, wait_for, senders, m, out, told, cpu, runqueue>>
    /\ UNCHANGED <<insts, vmVars, natVars>>

\* The rest of it: VM never runs again.
exited ==
    /\ cpu = VM /\ at[VM] = "exit"
    /\ blocked' = [blocked EXCEPT ![VM] = TRUE] /\ switch_from(runqueue)
    /\ UNCHANGED <<insts, vmVars, natVars, at, wait_for, senders, m, out, told>>

hinavm_run == compute \/ control \/ message \/ send \/ recv \/ task_exit \/ exited
-----------------------------------------------------------------------------
(* The native tasks.                                                       *)

Called(t) ==
    /\ cpu = t /\ at[t] = "run" /\ calls[t] < MaxCalls
    /\ calls' = [calls EXCEPT ![t] = @ + 1]

Ping(t, v) == [type |-> PING_MSG, src |-> t, value |-> v]

\* ipc_call of VM: a send, and then a receive from VM.
ping(t, v) ==
    /\ Called(t) /\ sent' = [sent EXCEPT ![t] = v]
    /\ \/ send_ready(t, VM, Ping(t, v), "receive")
       \/ send_block(t, VM, Ping(t, v), "receive")
       \/ /\ ~Waits(VM, t) /\ Crossed(t, VM)
          /\ UNCHANGED <<ipcVars, cpu, runqueue>>
    /\ UNCHANGED <<insts, vmVars, got>>

answer(t) ==
    /\ cpu = t /\ at[t] = "receive" /\ recv_message(t, VM)
    /\ UNCHANGED <<insts, vmVars, natVars>>

\* An open receive.
receive(t) ==
    /\ Called(t) /\ recv_message(t, IPC_ANY)
    /\ UNCHANGED <<insts, vmVars, sent, got>>

Kernel(t) == deliver(t) \/ taken(t) \/ (t = VM /\ hinavm_run) \/ (t # VM /\ answer(t))

Next ==
    \/ idle_task \/ \E t \in Tasks : Kernel(t)
    \/ \E t \in Natives : (\E v \in Values : ping(t, v)) \/ receive(t) \/ preempt(t)

Spec == Init /\ [][Next]_vars
-----------------------------------------------------------------------------
(* Properties.                                                             *)

\* Of a task that is back from ipc_call of a program that answers every ping,
\* pong with 42 (as tests.py and hello_hinavm have it) and the others with the
\* value they got, the answer is the one to its own ping, whoever else called
\* in between: VM has one message buffer for all.
OwnAnswer ==
    \A t \in Natives : got[t].type = PING_REPLY_MSG /\ at[t] = "run" =>
        got[t].value = IF insts = pong THEN 42 ELSE sent[t]

\* A task is in one queue of the kernel at most, and it waits in a queue of
\* senders only while it is blocked in its send.
QueuesSound ==
    LET InQueue(t, q) == {i \in DOMAIN q : q[i] = t}
    IN \A t \in Tasks :
        /\ Cardinality(InQueue(t, runqueue)) + Truth(cpu = t) = Truth(~blocked[t])
        /\ \A d \in Tasks : InQueue(t, senders[d]) # {} =>
               /\ blocked[t] /\ at[t] = "deliver" /\ out[t][1] = d
               /\ Cardinality(InQueue(t, senders[d])) = 1

\* pong serves every ping in the end.
Served == \A t \in Natives : []<>(insts = pong => at[t] \notin {"deliver", "receive"})

\* A native task that is ready runs in the end: the timer takes the CPU from a
\* task whose quantum is used up (handle_timer_interrupt).
OthersRun == \A t \in Natives : []<>(\A i \in DOMAIN runqueue : runqueue[i] # t)
-----------------------------------------------------------------------------
(* What the source says and the code does not do (README, Disagreements).  *)

\* src of a message is the task that sent it (struct message): what a native
\* task receives comes from VM, unless it is the exception of task_exit.
SourceTrue ==
    \A t \in Natives : got[t].type \notin {0, EXCEPTION_MSG} => got[t].src = VM

\* A task that has exited has told its pager, which destroys it (task_exit).
PagerTold == at[VM] = "exit" /\ blocked[VM] => told
=============================================================================
