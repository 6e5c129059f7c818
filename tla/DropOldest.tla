---------------------------- MODULE DropOldest ----------------------------
(***************************************************************************)
(* What the console input buffer promises: the last Capacity characters    *)
(* typed and not yet read, in order.  A character too many drops exactly   *)
(* the oldest one.                                                         *)
(***************************************************************************)
EXTENDS Integers, Sequences

CONSTANTS Chars, Capacity

VARIABLES queue,    \* characters typed and not read, oldest first
          taken     \* what the last read returned

Init == queue = <<>> /\ taken = <<>>

Type(ch) ==
    /\ LET q == Append(queue, ch)
       IN queue' = IF Len(q) > Capacity THEN Tail(q) ELSE q
    /\ UNCHANGED taken

Read(len) ==
    /\ len \in 1 .. Len(queue)
    /\ taken' = SubSeq(queue, 1, len)
    /\ queue' = SubSeq(queue, len + 1, Len(queue))

Next == (\E ch \in Chars : Type(ch)) \/ (\E len \in 1 .. Capacity : Read(len))

Spec == Init /\ [][Next]_<<queue, taken>>
=============================================================================
