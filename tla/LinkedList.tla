---------------------------- MODULE LinkedList ----------------------------
(***************************************************************************)
(* The intrusive doubly linked lists of libs/common/list.c and list.h, on  *)
(* which every queue of the kernel and of the servers is built: cells with *)
(* a next and a prev pointer, list heads that are cells themselves, and    *)
(* the LIST_FOR_EACH loop, which saves the next cell before its body runs  *)
(* because the body may remove the current one.                            *)
(*                                                                         *)
(* Modules Kernel and others use sequences for these lists; ListSpec is    *)
(* the step between.                                                       *)
(***************************************************************************)
EXTENDS Integers, Sequences, FiniteSets, SequencesExt

CONSTANTS Heads, Elems, NULL,
          MaxVisits     \* bound on the rounds of one loop

ListAssumption ==
    /\ Heads \cap Elems = {} /\ NULL \notin Heads \cup Elems /\ IsFiniteSet(Elems)
    /\ MaxVisits \in Nat

VARIABLES next, prev,   \* the pointers in each cell
          popped,       \* what the last list_pop_front returned
          loop,         \* the head a LIST_FOR_EACH runs over, or NULL
          elem, saved,  \* its current cell and __next
          start, visited \* members when the loop began, and those its body has seen

ptrVars == <<next, prev>>
loopVars == <<loop, elem, saved, start, visited>>
vars == <<ptrVars, popped, loopVars>>

Cells == Heads \cup Elems

TypeOK ==
    /\ next \in [Cells -> Cells \cup {NULL}] /\ prev \in [Cells -> Cells \cup {NULL}]
    /\ popped \in Elems \cup {NULL}
    /\ loop \in Heads \cup {NULL} /\ elem \in Cells \cup {NULL} /\ saved \in Cells \cup {NULL}
    /\ start \in Seq(Elems) /\ visited \in Seq(Elems)

\* list_init for heads, list_elem_init for elements.
Init ==
    /\ next = [c \in Cells |-> IF c \in Heads THEN c ELSE NULL]
    /\ prev = next
    /\ popped = NULL
    /\ loop = NULL /\ elem = NULL /\ saved = NULL /\ start = <<>> /\ visited = <<>>

list_is_linked(e) == next[e] # NULL

\* The elements on the way along next from l back to l, as list_contains and list_len walk.
Walk(l) ==
    LET most == Cardinality(Elems)
        n[i \in 0 .. most] == IF i = 0 THEN next[l]
                              ELSE IF n[i - 1] \in Elems THEN next[n[i - 1]] ELSE l
        len == Min({i \in 0 .. most : n[i] \notin Elems} \cup {most})
    IN [i \in 1 .. len |-> n[i - 1]]

list_contains(l, e) == e \in ToSet(Walk(l))

\* As Nullified, with the pointers left in the removed element.
NotNullified(f, e) == f

\* list_elem_nullify: f[e] = NULL.
Nullified(f, e) == [f EXCEPT ![e] = NULL]

\* The next and prev pointers once e is between p and n.
list_insert(p, n, e) ==
    /\ prev' = [prev EXCEPT ![e] = p, ![n] = e]
    /\ next' = [next EXCEPT ![e] = n, ![p] = e]

\* The DEBUG_ASSERTs of list_push_back are preconditions of its callers.
list_push_back(l, e) ==
    /\ ~list_contains(l, e) /\ ~list_is_linked(e)
    /\ list_insert(prev[l], l, e)
    /\ UNCHANGED popped

\* As Unlink, with only the forward pointer of the predecessor set.
ForwardOnly(e) == [nx |-> [next EXCEPT ![prev[e]] = next[e]], pv |-> prev]

\* The pointers around e once its neighbours are joined.
Unlink(e) == [nx |-> [next EXCEPT ![prev[e]] = next[e]], pv |-> [prev EXCEPT ![next[e]] = prev[e]]]

list_remove(e) ==
    /\ IF list_is_linked(e)
       THEN /\ next' = Nullified(Unlink(e).nx, e)
            /\ prev' = Nullified(Unlink(e).pv, e)
       ELSE UNCHANGED ptrVars
    /\ UNCHANGED popped

list_pop_front(l) ==
    LET head == next[l]
    IN IF head = l
       THEN popped' = NULL /\ UNCHANGED ptrVars
       ELSE /\ next' = Nullified([next EXCEPT ![l] = next[head]], head)
            /\ prev' = Nullified([prev EXCEPT ![next[head]] = l], head)
            /\ popped' = head
-----------------------------------------------------------------------------
(* LIST_FOR_EACH.                                                          *)

\* As SaveNext, one cell too far.
SaveTwo(e) == next[next[e]]

\* __next is read before the body.
SaveNext(e) == next[e]

\* Entering the body with cell e, or leaving the loop at the head.
Enter(l, e, seen) ==
    IF e = l
    THEN loop' = NULL /\ elem' = NULL /\ saved' = NULL /\ visited' = seen
    ELSE loop' = l /\ elem' = e /\ saved' = SaveNext(e) /\ visited' = Append(seen, e)

foreach(l) ==
    /\ loop = NULL
    /\ start' = Walk(l)
    /\ Enter(l, next[l], <<>>)
    /\ UNCHANGED <<ptrVars, popped>>

\* elem = __next.
foreach_next ==
    /\ loop # NULL /\ Len(visited) < MaxVisits
    /\ Enter(loop, saved, visited)
    /\ UNCHANGED <<ptrVars, popped, start>>

(***************************************************************************)
(* The body of a loop may remove the current element, which is what __next *)
(* is for, and add elements to any list.  No loop of the repository        *)
(* removes another element than the current one.                           *)
(***************************************************************************)
body ==
    /\ loop # NULL
    /\ \/ list_remove(elem)
       \/ \E e \in Elems, l \in Heads : list_push_back(l, e)
    /\ UNCHANGED loopVars

outside ==
    /\ loop = NULL
    /\ \/ \E e \in Elems : list_remove(e)
       \/ \E l \in Heads : list_pop_front(l) \/ \E e \in Elems : list_push_back(l, e)
    /\ UNCHANGED loopVars

Next == foreach_next \/ body \/ outside \/ \E l \in Heads : foreach(l)

Spec == Init /\ [][Next]_vars
-----------------------------------------------------------------------------
\* Every linked cell is pointed back at by its two neighbours, so that one pointer
\* operation never leaves half of an element in a list.
Symmetric ==
    \A c \in Cells : /\ (next[c] = NULL) <=> (prev[c] = NULL)
                     /\ next[c] # NULL => prev[next[c]] = c /\ next[prev[c]] = c

\* The pointers implement sequences in which an element is at most once.
seqs == [l \in Heads |-> Walk(l)]
Abstract == INSTANCE ListSpec
ImplementsLists == Abstract!Spec

\* A loop sees every member the list had when it began, in order, although its body
\* removes members and adds others; what is added comes after them.
ForEachSeesAll == loop = NULL => IsPrefix(start, visited)

=============================================================================
