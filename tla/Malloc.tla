------------------------------- MODULE Malloc -------------------------------
(***************************************************************************)
(* The heap of user programs (libs/user/malloc.c): chunks with a header,   *)
(* a free list searched first-fit, splitting without merging.  Addresses   *)
(* and sizes are bytes; requests stay below the address space, so sums do  *)
(* not wrap.                                                               *)
(***************************************************************************)
EXTENDS Integers, Sequences, FiniteSets, SequencesExt, Lists

CONSTANTS
    HeapSize,       \* __heap_end - __heap
    Hdr,            \* sizeof(struct malloc_chunk)
    Align,          \* allocation unit (8)
    Sizes,          \* sizes programs ask for
    Pointers        \* variables of the program that hold a malloc'ed pointer

HeapAssumption ==
    /\ Align \in Nat \ {0} /\ Hdr \in Nat \ {0} /\ Hdr % Align = 0
    /\ HeapSize \in Nat /\ HeapSize % Align = 0 /\ HeapSize > Hdr
    /\ Sizes \subseteq Nat

Null == -1
Addresses == 0 .. HeapSize - 1

VARIABLES
    chunks,         \* chunk headers by address: capacity, size, magic
    free_chunks,    \* the free list, as addresses
    ptr, len,       \* per pointer variable: the chunk it points into, the size asked for
    lost,           \* a realloc did not preserve the contents
    panicked        \* PANIC: the program has ended

vars == <<chunks, free_chunks, ptr, len, lost, panicked>>

Chunk(cap, size, magic) == [capacity |-> cap, size |-> size, magic |-> magic]

TypeOK ==
    /\ DOMAIN chunks \subseteq Addresses
    /\ \A a \in DOMAIN chunks : chunks[a] \in [capacity : 1 .. HeapSize, size : 0 .. HeapSize,
                                               magic : {"FREE", "IN_USE"}]
    /\ free_chunks \in Seq(Addresses)
    /\ ptr \in [Pointers -> Addresses \cup {Null}] /\ len \in [Pointers -> Nat]
    /\ lost \in BOOLEAN /\ panicked \in BOOLEAN

\* malloc_init.
Init ==
    /\ chunks = [a \in {0} |-> Chunk(HeapSize - Hdr, 0, "FREE")]
    /\ free_chunks = <<0>>
    /\ ptr = [p \in Pointers |-> Null] /\ len = [p \in Pointers |-> 0]
    /\ lost = FALSE /\ panicked = FALSE

\* ALIGN_UP((size == 0) ? 1 : size, 8).
Aligned(n) == (((IF n = 0 THEN 1 ELSE n) + Align - 1) \div Align) * Align

Fits(a, size) == chunks[a].capacity >= size

Splittable(a, size) == chunks[a].capacity >= size + Hdr + Align

\* As split, with the capacity of the first part left as it was.
SplitOverlapping(a, cap) ==
    [x \in DOMAIN chunks \cup {a + Hdr + cap} |->
        IF x = a THEN Chunk(chunks[a].capacity, cap, "IN_USE")
        ELSE IF x = a + Hdr + cap THEN Chunk(chunks[a].capacity - cap - Hdr, 0, "FREE")
        ELSE chunks[x]]

\* The chunk headers after chunk a has been cut to cap bytes and taken into use.
split(a, cap) ==
    [x \in DOMAIN chunks \cup {a + Hdr + cap} |->
        IF x = a THEN Chunk(cap, cap, "IN_USE")
        ELSE IF x = a + Hdr + cap THEN Chunk(chunks[a].capacity - cap - Hdr, 0, "FREE")
        ELSE chunks[x]]

\* As Take, with the chunk left on the free list.
TakeLinked(a, size) ==
    IF Splittable(a, size)
    THEN [cs |-> split(a, size), fl |-> Append(free_chunks, a + Hdr + size)]
    ELSE [cs |-> [chunks EXCEPT ![a] = Chunk(@.capacity, size, "IN_USE")], fl |-> free_chunks]

\* Chunks and free list after chunk a has been taken for size bytes.
Take(a, size) ==
    IF Splittable(a, size)
    THEN [cs |-> split(a, size), fl |-> Append(Without(free_chunks, a), a + Hdr + size)]
    ELSE [cs |-> [chunks EXCEPT ![a] = Chunk(@.capacity, size, "IN_USE")],
          fl |-> Without(free_chunks, a)]

\* The positions of the chunks in the free list that are large enough.
Candidates(size) == {i \in DOMAIN free_chunks : Fits(free_chunks[i], Aligned(size))}

FirstFit(size) == free_chunks[CHOOSE i \in Candidates(size) : \A j \in Candidates(size) : i =< j]

malloc(p, size) ==
    /\ ~panicked /\ ptr[p] = Null
    /\ \/ /\ Candidates(size) # {}
          /\ LET a == FirstFit(size)
             IN /\ chunks' = Take(a, Aligned(size)).cs
                /\ free_chunks' = Take(a, Aligned(size)).fl
                /\ ptr' = [ptr EXCEPT ![p] = a]
                /\ len' = [len EXCEPT ![p] = size]
          /\ UNCHANGED panicked
       \/ /\ Candidates(size) = {} /\ panicked' = TRUE
          /\ UNCHANGED <<chunks, free_chunks, ptr, len>>
    /\ UNCHANGED lost

\* strdup: a copy with its terminating NUL.
strdup(p, strlen) == malloc(p, strlen + 1)

\* The chunk headers once chunk a has been given back.
Released(cs, a) == [cs EXCEPT ![a].magic = "FREE"]

free(p) ==
    /\ ~panicked /\ ptr[p] # Null
    /\ chunks' = Released(chunks, ptr[p])
    /\ free_chunks' = Append(free_chunks, ptr[p])
    /\ ptr' = [ptr EXCEPT ![p] = Null] /\ len' = [len EXCEPT ![p] = 0]
    /\ UNCHANGED <<lost, panicked>>

\* As InPlace, by the size of the whole chunk with its header.
InPlaceWithHeader(a, size) == size =< chunks[a].capacity + Hdr

InPlace(a, size) == size =< chunks[a].capacity

\* memcpy(new_ptr, ptr, prev_size): how many of the first n bytes are copied.
Copied(a, n) == IF chunks[a].size < n THEN chunks[a].size ELSE n

\* realloc of a pointer: in place if the capacity allows it (the header is left as it
\* is), else a new chunk, a copy of prev_size bytes and free.
realloc(p, size) ==
    /\ ~panicked /\ ptr[p] # Null
    /\ LET a == ptr[p]
       IN \/ /\ InPlace(a, size)
             /\ len' = [len EXCEPT ![p] = size]
             /\ UNCHANGED <<chunks, free_chunks, ptr, lost, panicked>>
          \/ /\ ~InPlace(a, size) /\ Candidates(size) # {}
             /\ LET new == FirstFit(size)
                IN /\ chunks' = Released(Take(new, Aligned(size)).cs, a)
                   /\ free_chunks' = Append(Take(new, Aligned(size)).fl, a)
                   /\ ptr' = [ptr EXCEPT ![p] = new]
             /\ len' = [len EXCEPT ![p] = size]
             /\ lost' = (lost \/ Copied(a, len[p]) < len[p])
             /\ UNCHANGED panicked
          \/ /\ ~InPlace(a, size) /\ Candidates(size) = {} /\ panicked' = TRUE
             /\ UNCHANGED <<chunks, free_chunks, ptr, len, lost>>

Next ==
    \E p \in Pointers : free(p) \/ \E size \in Sizes :
                            malloc(p, size) \/ strdup(p, size) \/ realloc(p, size)

Spec == Init /\ [][Next]_vars
-----------------------------------------------------------------------------
\* The chunks tile the heap: each one ends where the next one, or the end of the
\* heap, begins, through any sequence of splits.
Tiled ==
    \A a \in DOMAIN chunks :
        LET end == a + Hdr + chunks[a].capacity
        IN /\ end = HeapSize \/ end \in DOMAIN chunks
           /\ \A b \in DOMAIN chunks : a < b => end =< b

\* The free list has every free chunk once and no chunk that is in use, so malloc's
\* and free's assertions on the magic number hold.
FreeListExact ==
    /\ ToSet(free_chunks) = {a \in DOMAIN chunks : chunks[a].magic = "FREE"}
    /\ \A i, j \in DOMAIN free_chunks : free_chunks[i] = free_chunks[j] => i = j

\* Every pointer has a chunk of its own with room for what was asked for, and the
\* chunk is marked as in use for as long as the program holds the pointer.
RoomForAll ==
    /\ \A p \in Pointers : ptr[p] # Null => /\ chunks[ptr[p]].magic = "IN_USE"
                                            /\ len[p] =< chunks[ptr[p]].capacity
    /\ \A p, q \in Pointers : ptr[p] = ptr[q] /\ ptr[p] # Null => p = q
-----------------------------------------------------------------------------
(* What the source says and the code does not do (README, Disagreements).  *)

\* The comment on realloc promises the memory "enlarged to size bytes": what the
\* program has stored in it is still there.
ReallocPreserves == ~lost
=============================================================================
