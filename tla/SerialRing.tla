----------------------------- MODULE SerialRing -----------------------------
(***************************************************************************)
(* The serial console (kernel/printk.c, the serial system calls of         *)
(* kernel/syscall.c): a ring buffer with a read and a write position, an   *)
(* interrupt handler that fills it, and system calls that read from it and *)
(* write to the UART.                                                      *)
(*                                                                         *)
(* The interrupt handler holds the big lock from its first character to    *)
(* its last (handling); a reader gives it up only where it blocks, a       *)
(* writer where its buffer is copied in and may fault.                     *)
(***************************************************************************)
EXTENDS Integers, Sequences, FiniteSets

CONSTANTS
    Tasks,
    Chars,          \* characters other than Ctrl-P
    CTRL_P,         \* the key that prints the debug dump
    RingSize,       \* sizeof(input)
    MaxLens,        \* the max_len programs read with
    WriteMax,       \* most characters one call writes (4096)
    KbufSize,       \* sizeof(kbuf) in sys_serial_write (512)
    Texts           \* what programs write

RingAssumption ==
    /\ RingSize \in Nat \ {0, 1} /\ CTRL_P \notin Chars
    /\ MaxLens \subseteq 1 .. RingSize /\ WriteMax \in Nat /\ KbufSize \in Nat \ {0}
    /\ Texts \subseteq Seq(Chars)

VARIABLES
    input, input_rp, input_wp,  \* the ring
    handling,                   \* the serial interrupt is being handled
    readers,                    \* serial_readers: blocked tasks
    max_len,                    \* per task: its read in progress, 0 if none
    taken,                      \* what the last read returned
    writing, remaining, output  \* per task: text being written, what is left, what the UART got

ringVars == <<input, input_rp, input_wp>>
writeVars == <<writing, remaining, output>>
vars == <<ringVars, handling, readers, max_len, taken, writeVars>>

Positions == 0 .. RingSize - 1

TypeOK ==
    /\ input \in [Positions -> Chars] /\ input_rp \in Positions /\ input_wp \in Positions
    /\ handling \in BOOLEAN /\ readers \subseteq Tasks
    /\ max_len \in [Tasks -> 0 .. RingSize] /\ taken \in Seq(Chars)
    /\ writing \in [Tasks -> Seq(Chars)] /\ output \in [Tasks -> Seq(Chars)]
    /\ remaining \in [Tasks -> 0 .. WriteMax]

Init ==
    /\ input \in {[p \in Positions |-> c] : c \in Chars} /\ input_rp = 0 /\ input_wp = 0
    /\ handling = FALSE /\ readers = {} /\ max_len = [t \in Tasks |-> 0] /\ taken = <<>>
    /\ writing = [t \in Tasks |-> <<>>] /\ remaining = [t \in Tasks |-> 0]
    /\ output = [t \in Tasks |-> <<>>]

NextPosition(p) == (p + 1) % RingSize

\* As DropWhenFull, with the test before the write position has moved.
DropTooLate(rp, wp) == IF rp = NextPosition(wp) THEN NextPosition(rp) ELSE rp

\* The ring is full when the write position has caught up with the read position.
DropWhenFull(rp, wp) == IF rp = wp THEN NextPosition(rp) ELSE rp

\* Characters in the ring.
Filled == (input_wp - input_rp + RingSize) % RingSize

serial_interrupt ==
    /\ ~handling /\ handling' = TRUE
    /\ UNCHANGED <<ringVars, readers, max_len, taken, writeVars>>

\* handle_serial_interrupt: one character of the loop.
receive_char ==
    /\ handling
    /\ \E ch \in Chars \cup {CTRL_P} :
        IF ch = CTRL_P
        THEN UNCHANGED ringVars
        ELSE /\ input' = [input EXCEPT ![input_wp] = ch]
             /\ input_wp' = NextPosition(input_wp)
             /\ input_rp' = DropWhenFull(input_rp, NextPosition(input_wp))
    /\ UNCHANGED <<handling, readers, max_len, taken, writeVars>>

\* As Woken, with only one of the waiting tasks resumed.
OneWoken(rs) == IF rs = {} THEN {} ELSE rs \ {CHOOSE t \in rs : TRUE}

\* The list of readers after all of them have been resumed.
Woken(rs) == {}

\* handle_serial_interrupt: no more characters; all readers are resumed.
serial_handled ==
    /\ handling /\ handling' = FALSE
    /\ readers' = Woken(readers)
    /\ UNCHANGED <<ringVars, max_len, taken, writeVars>>

sys_serial_read(t) ==
    /\ ~handling /\ max_len[t] = 0 /\ remaining[t] = 0
    /\ \E n \in MaxLens : max_len' = [max_len EXCEPT ![t] = n]
    /\ UNCHANGED <<ringVars, handling, readers, taken, writeVars>>

\* serial_read: takes what is there, or blocks until the next interrupt.
serial_read(t) ==
    /\ ~handling /\ max_len[t] > 0 /\ t \notin readers
    /\ LET len == IF Filled < max_len[t] THEN Filled ELSE max_len[t]
       IN \/ /\ len > 0
             /\ taken' = [i \in 1 .. len |-> input[(input_rp + i - 1) % RingSize]]
             /\ input_rp' = (input_rp + len) % RingSize
             /\ max_len' = [max_len EXCEPT ![t] = 0]
             /\ UNCHANGED readers
          \/ /\ len = 0
             /\ readers' = readers \cup {t}
             /\ UNCHANGED <<input_rp, max_len, taken>>
    /\ UNCHANGED <<input, input_wp, handling, writeVars>>

\* written_len = MIN(buf_len, 4096).
Limited(n) == IF n < WriteMax THEN n ELSE WriteMax

sys_serial_write(t, text) ==
    /\ ~handling /\ max_len[t] = 0 /\ remaining[t] = 0
    /\ writing' = [writing EXCEPT ![t] = text]
    /\ remaining' = [remaining EXCEPT ![t] = Limited(Len(text))]
    /\ output' = [output EXCEPT ![t] = <<>>]
    /\ UNCHANGED <<ringVars, handling, readers, max_len, taken>>

\* As CopyLen, one character short of the buffer.
CopyShort(n) == IF n < KbufSize THEN n ELSE KbufSize - 1

\* copy_len = MIN(remaining, sizeof(kbuf)).
CopyLen(n) == IF n < KbufSize THEN n ELSE KbufSize

\* sys_serial_write: one round of the loop.  Every round copies from the start of buf.
write_chunk(t) ==
    /\ ~handling /\ remaining[t] > 0
    /\ LET copy_len == CopyLen(remaining[t])
       IN /\ output' = [output EXCEPT ![t] = @ \o SubSeq(writing[t], 1, copy_len)]
          /\ remaining' = [remaining EXCEPT ![t] = @ - copy_len]
    /\ UNCHANGED <<ringVars, handling, readers, max_len, taken, writing>>

Next ==
    \/ serial_interrupt \/ receive_char \/ serial_handled
    \/ \E t \in Tasks : \/ sys_serial_read(t) \/ serial_read(t) \/ write_chunk(t)
                        \/ \E text \in Texts : sys_serial_write(t, text)

Spec == Init /\ [][Next]_vars
-----------------------------------------------------------------------------
\* Two positions are enough: read and written in any order, wrapped around and
\* overrun, the ring holds the last RingSize - 1 characters that were not read.
queue == [i \in 1 .. Filled |-> input[(input_rp + i - 1) % RingSize]]
Abstract == INSTANCE DropOldest WITH Capacity <- RingSize - 1
ImplementsDropOldest == Abstract!Spec

\* No reader sleeps on a buffer with characters in it, except while the handler
\* that will wake it is still running.
SleepsOnlyOnEmpty == readers # {} /\ Filled > 0 => handling

\* A reader that waits is served once characters are there: they are gone again
\* only because somebody has read them.
ReaderServed == \A t \in Tasks : []<>(max_len[t] = 0 \/ Filled = 0)

\* sys_serial_write copies "the text to write" (its comment): when it is done, the
\* UART has got the first characters of the text, each once.
WritesText ==
    \A t \in Tasks : remaining[t] = 0 => output[t] = SubSeq(writing[t], 1, Limited(Len(writing[t])))
=============================================================================
