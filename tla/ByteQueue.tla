----------------------------- MODULE ByteQueue -----------------------------
(***************************************************************************)
(* What a packet buffer promises: a queue of bytes, added at the end,      *)
(* taken or dropped at the front.                                          *)
(***************************************************************************)
EXTENDS Integers, Sequences

CONSTANTS Inputs,   \* the pieces in which bytes are added
          MaxLen    \* the most bytes one call takes

VARIABLES bytes,
          result, count     \* bytes and number of bytes the last call returned

Take(n) == SubSeq(bytes, n + 1, Len(bytes))
First(n) == SubSeq(bytes, 1, n)
Bounded(n) == IF n < Len(bytes) THEN n ELSE Len(bytes)

Init == bytes = <<>> /\ result = <<>> /\ count = 0

Add == \E s \in Inputs : bytes' = bytes \o s /\ result' = <<>> /\ count' = 0

\* Both take as many bytes as they return.
Taken(n) == bytes' = Take(n) /\ count' = n
Read == \E n \in 0 .. MaxLen : Taken(Bounded(n)) /\ result' = First(Bounded(n))
Discard == \E n \in 0 .. MaxLen : Taken(Bounded(n)) /\ result' = <<>>

Next == Add \/ Read \/ Discard

Spec == Init /\ [][Next]_<<bytes, result, count>>
=============================================================================
