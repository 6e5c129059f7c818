------------------------------ MODULE ListSpec ------------------------------
(***************************************************************************)
(* What the intrusive lists of libs/common/list.c promise: a set of        *)
(* sequences in which every element occurs at most once.                   *)
(***************************************************************************)
EXTENDS Sequences, Lists

CONSTANTS Heads, Elems, NULL

VARIABLES seqs,     \* seqs[l]: the members of list l, in order
          popped    \* what the last list_pop_front returned

Init == seqs = [l \in Heads |-> <<>>] /\ popped = NULL

Linked(e) == \E l \in Heads : \E i \in DOMAIN seqs[l] : seqs[l][i] = e

Push(l, e) == ~Linked(e) /\ seqs' = [seqs EXCEPT ![l] = Append(@, e)] /\ UNCHANGED popped

Remove(e) == seqs' = [l \in Heads |-> Without(seqs[l], e)] /\ UNCHANGED popped

Pop(l) ==
    IF seqs[l] = <<>>
    THEN popped' = NULL /\ UNCHANGED seqs
    ELSE popped' = Head(seqs[l]) /\ seqs' = [seqs EXCEPT ![l] = Tail(@)]

Next == \/ \E e \in Elems : Remove(e)
        \/ \E l \in Heads : Pop(l) \/ \E e \in Elems : Push(l, e)

Spec == Init /\ [][Next]_<<seqs, popped>>
=============================================================================
