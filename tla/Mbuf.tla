-------------------------------- MODULE Mbuf --------------------------------
(***************************************************************************)
(* Packet buffers (servers/tcpip/mbuf.c): chains of small buffers, each    *)
(* with a window [offset, offset_end) of valid bytes.  A chain is a        *)
(* sequence of mbufs; the functions of mbuf.c are operators on chains.     *)
(* What a loop over the chain does is stated through the position at which *)
(* it stops.                                                               *)
(***************************************************************************)
EXTENDS Integers, Sequences, FiniteSets, SequencesExt

CONSTANT MBUF_MAX_LEN   \* bytes of data in one mbuf

MbufAssumption == MBUF_MAX_LEN \in Nat \ {0}

Zero == 0               \* a byte of fresh memory (malloc clears it)
Slots == 0 .. MBUF_MAX_LEN - 1

mbuf_alloc == [offset |-> 0, offset_end |-> 0, data |-> [k \in Slots |-> Zero]]

Lesser(a, b) == IF a < b THEN a ELSE b

mbuf_len_one(m) == m.offset_end - m.offset

\* mbuf_data: the valid bytes of one mbuf.
Bytes(m) == [i \in 1 .. mbuf_len_one(m) |-> m.data[m.offset + i - 1]]

\* The bytes of the whole chain: what it stands for.
Content(c) == FlattenSeq([i \in DOMAIN c |-> Bytes(c[i])])

\* Bytes in the first i mbufs of chain c.
Upto(c, i) == FoldLeft(LAMBDA n, m : n + mbuf_len_one(m), 0, SubSeq(c, 1, i))

mbuf_len(c) == Upto(c, Len(c))
mbuf_is_empty(c) == mbuf_len(c) = 0

\* memcpy of the bytes s to data[at], data[at + 1], ...
Copy(data, at, s) == [k \in Slots |-> IF k - at + 1 \in DOMAIN s THEN s[k - at + 1] ELSE data[k]]

\* One mbuf that is filled with s.
Filled(s) == [mbuf_alloc EXCEPT !.offset_end = Len(s), !.data = Copy(@, 0, s)]

\* mbuf_new: as many full mbufs as are needed, at least one.
mbuf_new(s) ==
    LET n == IF s = <<>> THEN 1 ELSE (Len(s) + MBUF_MAX_LEN - 1) \div MBUF_MAX_LEN
    IN [i \in 1 .. n |-> Filled(SubSeq(s, (i - 1) * MBUF_MAX_LEN + 1, Lesser(i * MBUF_MAX_LEN, Len(s))))]

mbuf_append(c, tail) == c \o tail

\* avail_len: the room behind the valid bytes.
Avail(m) == MBUF_MAX_LEN - m.offset_end

\* mbuf_append_bytes: fills up the last mbuf, then adds new ones.
mbuf_append_bytes(c, s) ==
    LET last == c[Len(c)]
        n == Lesser(Len(s), Avail(last))
        full == [last EXCEPT !.offset_end = @ + n, !.data = Copy(@, last.offset_end, SubSeq(s, 1, n))]
        rest == SubSeq(s, n + 1, Len(s))
    IN Front(c) \o <<full>> \o (IF rest = <<>> THEN <<>> ELSE mbuf_new(rest))

\* Chain c from mbuf j on, with the first r bytes of c gone.
From(c, j, r) == <<[c[j] EXCEPT !.offset = @ + r - Upto(c, j - 1)]>> \o SubSeq(c, j + 1, Len(c))

\* The first of the positions at which a loop would stop.
Least(S) == CHOOSE j \in S : \A k \in S : j =< k

\* mbuf_read: the bytes read and the chain left.  Emptied mbufs are freed, but for the last.
mbuf_read(c, n) ==
    LET r == Lesser(n, mbuf_len(c))
        j == Least({k \in DOMAIN c : Upto(c, k) > r} \cup {Len(c)})
    IN [read |-> SubSeq(Content(c), 1, r), chain |-> From(c, j, r)]

\* As mbuf_discard, dropping whole mbufs.
DiscardWhole(c, n) ==
    LET r == Lesser(n, mbuf_len(c))
        j == Least({k \in DOMAIN c : Upto(c, k) >= r} \cup {Len(c)})
    IN From(c, j, Upto(c, j))

\* mbuf_discard: stops as soon as nothing remains, also at an emptied mbuf.
mbuf_discard(c, n) ==
    LET r == Lesser(n, mbuf_len(c))
        j == Least({k \in DOMAIN c : Upto(c, k) >= r /\ (n > r => k = Len(c))} \cup {Len(c)})
    IN IF n = 0 THEN c ELSE From(c, j, r)

\* mbuf_copy_one: the window of the source, but the bytes from the start of its data.
mbuf_copy_one(m) ==
    [m EXCEPT !.data = Copy(mbuf_alloc.data, 0, [i \in 1 .. mbuf_len_one(m) |-> m.data[i - 1]])]

\* mbuf_peek: copies up to the mbuf in which len ends, and cuts that one.
mbuf_peek(c, len) ==
    LET ends == {k \in DOMAIN c : len - Upto(c, k - 1) =< mbuf_len_one(c[k])}
        k == Least(ends)
        copies == [i \in DOMAIN c |-> mbuf_copy_one(c[i])]
    IN IF ends = {} THEN Append(copies, mbuf_alloc)
       ELSE SubSeq(copies, 1, k - 1)
            \o <<[copies[k] EXCEPT !.offset_end = copies[k].offset + len - Upto(c, k - 1)]>>

\* mbuf_truncate: cuts inside the mbuf in which len ends, and not at a boundary.
mbuf_truncate(c, len) ==
    LET inside == {k \in DOMAIN c : Upto(c, k - 1) < len /\ len < Upto(c, k)}
        k == Least(inside)
    IN IF inside = {} THEN c
       ELSE SubSeq(c, 1, k - 1) \o <<[c[k] EXCEPT !.offset_end = @ - (Upto(c, k) - len)]>>

\* mbuf_clone: copies every mbuf but links none of them to the first.
mbuf_clone(c) == <<c[1]>>
=============================================================================
