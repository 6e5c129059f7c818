------------------------------ MODULE FileSpec ------------------------------
(***************************************************************************)
(* What the file system server promises about the files of one directory,  *)
(* without blocks: a file is a sequence of bytes, an open file a task, a   *)
(* name and an offset.  A write replaces everything from its offset on.    *)
(* Any request may also fail and change nothing.                           *)
(***************************************************************************)
EXTENDS Integers, Sequences

CONSTANTS Names, Clients, Lens

VARIABLES
    files,      \* [Names -> the file's bytes], Absent if there is no such file
    open,       \* per file descriptor: [task, name, offset]
    result      \* the bytes of the last answer

vars == <<files, open, result>>

Absent == <<-1>>
Closed == [task |-> 0, name |-> "", offset |-> 0]

Init ==
    /\ files = [n \in Names |-> Absent] /\ result = <<>>
    /\ open = [f \in DOMAIN open |-> Closed]

Create(n) ==
    /\ files[n] = Absent /\ files' = [files EXCEPT ![n] = <<>>]
    /\ result' = <<>> /\ UNCHANGED open

Open(t, n, f) ==
    /\ files[n] # Absent /\ open[f] = Closed
    /\ open' = [open EXCEPT ![f] = [task |-> t, name |-> n, offset |-> 0]]
    /\ result' = <<>> /\ UNCHANGED files

Close(t, f) ==
    /\ open[f].task = t /\ open' = [open EXCEPT ![f] = Closed]
    /\ result' = <<>> /\ UNCHANGED files

\* All files of a task that has ended.
CloseAll(t) ==
    /\ open' = [f \in DOMAIN open |-> IF open[f].task = t THEN Closed ELSE open[f]]
    /\ result' = <<>> /\ UNCHANGED files

Write(t, f, len) ==
    LET n == open[f].name
        o == open[f].offset
    IN  /\ open[f].task = t /\ o =< Len(files[n])
        /\ files' = [files EXCEPT ![n] = SubSeq(@, 1, o) \o [k \in 1 .. len |-> t]]
        /\ open' = [open EXCEPT ![f].offset = o + len]
        /\ result' = <<>>

Read(t, f, len) ==
    LET bytes == files[open[f].name]
        o     == open[f].offset
        end   == IF o + len < Len(bytes) THEN o + len ELSE Len(bytes)
    IN  /\ open[f].task = t /\ o < Len(bytes)
        /\ result' = SubSeq(bytes, o + 1, end)
        /\ open' = [open EXCEPT ![f].offset = end]
        /\ UNCHANGED files

Fail == result' = <<>> /\ UNCHANGED <<files, open>>

Next ==
    \/ \E n \in Names : Create(n)
    \/ \E t \in Clients, f \in DOMAIN open :
          \/ \E n \in Names : Open(t, n, f)
          \/ Close(t, f) \/ CloseAll(t)
          \/ \E len \in Lens : Write(t, f, len) \/ Read(t, f, len)
    \/ Fail

Spec == Init /\ [][Next]_vars
=============================================================================
