------------------------------- MODULE Clock -------------------------------
(***************************************************************************)
(* The kernel's clock: the machine-mode timer handler of                   *)
(* kernel/riscv32/handler.S, the software interrupt in kernel/riscv32/     *)
(* trap.c that timers and IPIs share, handle_timer_interrupt of kernel/    *)
(* interrupt.c, and the system calls time and uptime.                      *)
(*                                                                         *)
(* Time is relative: since is mtime less the CPU's last_mtime, left is     *)
(* mtimecmp less mtime.  age is mtime itself, of which the handler only    *)
(* ever writes the low word to mtimecmp; it is counted up to MaxAge.  The  *)
(* modelled task sets one timeout after the other.                         *)
(***************************************************************************)
EXTENDS Integers, FiniteSetsExt

CONSTANTS
    CPUs,               \* 0 .. n - 1
    TickTime,           \* mtime counts of a tick, MTIME_PER_1MS / (TICK_HZ / 1000)
    INTERVAL,           \* arch.interval, MTIME_PER_1MS
    Word,               \* mtime counts until the low word of mtime wraps, 2^32
    TICK_HZ,
    Latency,            \* a CPU takes a software interrupt within this many counts of its last
    Ipis,               \* whether other CPUs send IPIs
    Timeouts,           \* timeouts the task asks for, in milliseconds
    MaxAge

ClockAssumption ==
    /\ 0 \in CPUs /\ IsFiniteSet(CPUs)
    /\ TickTime \in Nat \ {0} /\ INTERVAL \in Nat \ {0} /\ Word \in Nat
    /\ TICK_HZ \in Nat /\ TICK_HZ >= 1000 /\ Latency \in Nat /\ Latency >= INTERVAL
    /\ Ipis \in BOOLEAN /\ Timeouts \subseteq Nat /\ IsFiniteSet(Timeouts) /\ MaxAge \in Nat

VARIABLES
    since, left,        \* for each CPU
    ssip,               \* the software interrupt is pending
    age,
    uptime_ticks,
    timeout,            \* of the task, in ticks
    asked, elapsed,     \* history: what it was set to, and mtime counts since then
    credit              \* history: counts since the last tick on CPU 0 when it was set

vars == <<since, left, ssip, age, uptime_ticks, timeout, asked, elapsed, credit>>

TimeoutTicks(ms) == ms * (TICK_HZ \div 1000)
MaxTicks == Max({TimeoutTicks(n) : n \in Timeouts} \cup {0})
MaxUptime == Cardinality(CPUs) * MaxAge
UpTo(n, bound) == IF n < bound THEN n ELSE bound

TypeOK ==
    /\ since \in [CPUs -> 0 .. Latency] /\ left \in [CPUs -> 0 .. INTERVAL]
    /\ ssip \in [CPUs -> BOOLEAN] /\ age \in 0 .. MaxAge /\ uptime_ticks \in 0 .. MaxUptime
    /\ timeout \in 0 .. MaxTicks /\ asked \in 0 .. MaxTicks /\ timeout =< asked

\* arch_init_percpu.
Init ==
    /\ since = [c \in CPUs |-> 0] /\ left = [c \in CPUs |-> INTERVAL]
    /\ ssip = [c \in CPUs |-> FALSE] /\ age = 0 /\ uptime_ticks = 0
    /\ timeout = 0 /\ asked = 0 /\ elapsed = 0 /\ credit = 0
-----------------------------------------------------------------------------
\* The timer interrupt of the CPU is pending: mtime has reached mtimecmp.
Due(c) == left[c] = 0

\* The clock goes on; a CPU has the software interrupt enabled often enough.
Advance ==
    /\ \A c \in CPUs : ~Due(c) /\ (ssip[c] => since[c] < Latency)
    /\ since' = [c \in CPUs |-> UpTo(since[c] + 1, Latency)]
    /\ left' = [c \in CPUs |-> left[c] - 1]
    /\ age' = UpTo(age + 1, MaxAge)
    /\ elapsed' = UpTo(elapsed + 1, MaxTicks * TickTime + Latency)
    /\ UNCHANGED <<ssip, uptime_ticks, timeout, asked, credit>>

\* mtimecmp as the handler sets it, less mtime: the low word may wrap, the high
\* word stays 0.
NextTimer == IF age + INTERVAL < Word THEN INTERVAL ELSE 0

riscv32_timer_handler(c) ==
    /\ Due(c)
    /\ left' = [left EXCEPT ![c] = NextTimer]
    /\ ssip' = [ssip EXCEPT ![c] = TRUE]
    /\ UNCHANGED <<since, age, uptime_ticks, timeout, asked, elapsed, credit>>

\* arch_send_ipi of another CPU.
arch_send_ipi(c) ==
    /\ Ipis /\ ~Due(c) /\ ~ssip[c]
    /\ ssip' = [ssip EXCEPT ![c] = TRUE]
    /\ UNCHANGED <<since, left, age, uptime_ticks, timeout, asked, elapsed, credit>>

\* As Ticks, of a second.
TicksOfSeconds(c) == since[c] \div (TickTime * TICK_HZ)

Ticks(c) == since[c] \div TickTime

\* As Restarted, for a handler that does not store last_mtime.
NotRestarted(c) == since

\* last_mtime is now, what is left over of a tick included.
Restarted(c) == [since EXCEPT ![c] = 0]

\* As Remaining, kept by every CPU.
RemainingOnAll(c, ticks) == timeout - Min({timeout, ticks})

\* CPU 0 keeps the timeouts; at 0 the task is notified (module Kernel).
Remaining(c, ticks) == IF c = 0 THEN timeout - Min({timeout, ticks}) ELSE timeout

\* handle_soft_interrupt_trap and handle_timer_interrupt.
soft_interrupt(c) ==
    /\ ssip[c] /\ ~Due(c)
    /\ ssip' = [ssip EXCEPT ![c] = FALSE]
    /\ since' = Restarted(c)
    /\ uptime_ticks' = UpTo(uptime_ticks + Ticks(c), MaxUptime)
    /\ timeout' = Remaining(c, Ticks(c))
    /\ UNCHANGED <<left, age, asked, elapsed, credit>>

\* sys_time of the task.
sys_time(ms) ==
    /\ timeout = 0 /\ \A c \in CPUs : ~Due(c)
    /\ timeout' = TimeoutTicks(ms) /\ asked' = TimeoutTicks(ms)
    /\ elapsed' = 0 /\ credit' = since[0]
    /\ UNCHANGED <<since, left, ssip, age, uptime_ticks>>

\* sys_uptime.
sys_uptime == uptime_ticks \div TICK_HZ

Next ==
    \/ Advance
    \/ \E c \in CPUs : riscv32_timer_handler(c) \/ arch_send_ipi(c) \/ soft_interrupt(c)
    \/ \E ms \in Timeouts : sys_time(ms)

Spec == Init /\ [][Next]_vars
-----------------------------------------------------------------------------
(* Properties.                                                             *)

\* The counts of mtime that the CPUs have yet to account for.
Unaccounted == {p \in CPUs \X (1 .. Latency) : p[2] =< since[p[1]]}

\* What the CPUs have added to uptime_ticks, with what they will still add for
\* the time since their last interrupt, is at most the time that has passed, on
\* each of them: no interrupt counts time that another has counted on its CPU.
UptimeBound ==
    age < MaxAge =>
        uptime_ticks * TickTime + Cardinality(Unaccounted) =< Cardinality(CPUs) * age

\* A timeout has run down by no more than the time since it was set and the
\* time that CPU 0 had not yet accounted for then.
NotTooEarly ==
    timeout > 0 => (asked - timeout) * TickTime + since[0] =< elapsed + credit

\* A task that has set a timeout is notified in the end.
Expires == []<>(timeout = 0)
-----------------------------------------------------------------------------
(* What the source says and the code does not do (README, Disagreements).  *)

\* uptime_ticks is the time since the system was started, as interrupt.c says.
UptimeTrue == age < MaxAge => uptime_ticks * TickTime =< age

\* sys_uptime is that time in milliseconds, as syscall.c says.
UptimeMillis == age < MaxAge => sys_uptime = (uptime_ticks * 1000) \div TICK_HZ

\* A task is notified when the time it asked for has passed, and not before.
NotEarly == timeout < asked => elapsed >= (asked - timeout) * TickTime

\* The kernel goes on after the timer handler: the handler sets the time of the
\* next timer interrupt and returns.
HandlerReturns == \A c \in CPUs : Due(c) ~> ~Due(c)
=============================================================================
