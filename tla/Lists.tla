-------------------------------- MODULE Lists --------------------------------
(***************************************************************************)
(* The intrusive doubly linked lists of libs/common/list.c, seen as the    *)
(* sequences of their members.  list_push_back is Append, list_pop_front   *)
(* is Head and Tail, and list_contains is membership in the range.         *)
(***************************************************************************)
EXTENDS Integers, Sequences, FiniteSets, Functions

\* As Without, but x stays linked.
StillWith(s, x) == s

\* list_remove: the list s without x.
Without(s, x) ==
    IF x \in Range(s)
    THEN LET i == CHOOSE j \in DOMAIN s : s[j] = x
         IN  SubSeq(s, 1, i - 1) \o SubSeq(s, i + 1, Len(s))
    ELSE s

\* The sequences that list the elements of S once, in the order they have in the list
\* `order' (LIST_FOR_EACH over that list, for the members in S).
Enumerations(S, order) ==
    {q \in [1 .. Cardinality(S) -> S] :
        /\ Range(q) = S /\ IsInjective(q)
        /\ \A i, j \in DOMAIN q : i < j => \E k, l \in DOMAIN order :
                                               k < l /\ order[k] = q[i] /\ order[l] = q[j]}
=============================================================================
