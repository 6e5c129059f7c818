----------------------------- MODULE MbufQueue -----------------------------
(***************************************************************************)
(* A packet buffer in use, as the TCP send and receive buffers are: bytes  *)
(* and chains are appended, read and discarded in any order.  The pure     *)
(* functions mbuf_peek, mbuf_truncate and mbuf_clone are compared with     *)
(* what they are for in every state such a buffer can be in.               *)
(***************************************************************************)
EXTENDS Mbuf

CONSTANTS Inputs, MaxLen, MaxBytes   \* MaxBytes bounds the length of the queue

VARIABLES chain,
          result, count     \* bytes and number of bytes the last call returned

vars == <<chain, result, count>>

TypeOK ==
    /\ Len(chain) >= 1
    /\ \A i \in DOMAIN chain : 0 =< chain[i].offset /\ chain[i].offset =< chain[i].offset_end
                               /\ chain[i].offset_end =< MBUF_MAX_LEN

Init == chain = <<mbuf_alloc>> /\ result = <<>> /\ count = 0

append_bytes(s) ==
    /\ mbuf_len(chain) + Len(s) =< MaxBytes
    /\ chain' = mbuf_append_bytes(chain, s) /\ result' = <<>> /\ count' = 0

append(s) ==
    /\ mbuf_len(chain) + Len(s) =< MaxBytes /\ Len(chain) =< MaxBytes
    /\ chain' = mbuf_append(chain, mbuf_new(s)) /\ result' = <<>> /\ count' = 0

read(n) ==
    LET r == mbuf_read(chain, n)
    IN chain' = r.chain /\ result' = r.read /\ count' = Len(r.read)

discard(n) ==
    /\ chain' = mbuf_discard(chain, n) /\ result' = <<>>
    /\ count' = Lesser(n, mbuf_len(chain))

Next == \/ \E s \in Inputs : append_bytes(s) \/ append(s)
        \/ \E n \in 0 .. MaxLen : read(n) \/ discard(n)

Spec == Init /\ [][Next]_vars
-----------------------------------------------------------------------------
\* However its mbufs are filled, emptied and freed, the chain is a queue of bytes.
Abstract == INSTANCE ByteQueue WITH bytes <- Content(chain)
ImplementsByteQueue == Abstract!Spec
-----------------------------------------------------------------------------
(* What the source says and the code does not do (README, Disagreements).  *)

\* The comment on mbuf_peek: it reads the given number of bytes into a new mbuf.
PeekReads ==
    \A n \in 0 .. MaxLen :
        Content(mbuf_peek(chain, n)) = SubSeq(Content(chain), 1, Lesser(n, mbuf_len(chain)))

\* The comment on mbuf_truncate: bytes are removed so that the given number is left.
TruncateExact ==
    \A n \in 0 .. MaxLen :
        Content(mbuf_truncate(chain, n)) = SubSeq(Content(chain), 1, Lesser(n, mbuf_len(chain)))

\* The comment on mbuf_clone: it duplicates the chain.
CloneWhole == Content(mbuf_clone(chain)) = Content(chain)
=============================================================================
