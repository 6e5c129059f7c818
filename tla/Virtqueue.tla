----------------------------- MODULE Virtqueue -----------------------------
(***************************************************************************)
(* A virtqueue (libs/user/virtio/virtio_mmio.c): a table of descriptors,   *)
(* those not in use chained into a free list through next; the available   *)
(* ring, written by the driver; the used ring, written by the device.      *)
(* A queue is a record; the operators are the driver's functions and, at   *)
(* the end, what the device does.                                          *)
(***************************************************************************)
EXTENDS Integers, Sequences, FiniteSets

CONSTANTS
    NumDescs,       \* num_descs
    IndexMod        \* the indices of the rings are uint16_t: a multiple of NumDescs

VirtqAssumption ==
    NumDescs \in Nat \ {0} /\ IndexMod \in Nat \ {0} /\ IndexMod % NumDescs = 0 /\ IndexMod > NumDescs

Descs == 0 .. NumDescs - 1

\* virtq_init: all descriptors in the free list, in order.
NewQueue ==
    [next  |-> [d \in Descs |-> (d + 1) % NumDescs],
     more  |-> [d \in Descs |-> FALSE],             \* VIRTQ_DESC_F_NEXT
     addr  |-> [d \in Descs |-> 0],
     free_head |-> 0, num_free |-> NumDescs,
     avail |-> [i \in Descs |-> 0], avail_index |-> 0,
     used  |-> [i \in Descs |-> 0], used_index |-> 0, last_used |-> 0,
     seen  |-> 0,                                   \* device: what it has taken from avail
     busy  |-> {}]                                  \* device: what it is working on

\* n descriptors from d on, along next.
Along(vq, d, n) ==
    LET walk[k \in 1 .. n] == IF k = 1 THEN d ELSE vq.next[walk[k - 1]] IN [k \in 1 .. n |-> walk[k]]

\* The descriptors of the chain that starts at d.
Chain(vq, d) ==
    LET n == CHOOSE k \in 1 .. NumDescs :
                 LET a == Along(vq, d, k) IN ~vq.more[a[k]] /\ \A j \in 1 .. k - 1 : vq.more[a[j]]
    IN  Along(vq, d, n)

virtq_is_empty(vq) == vq.last_used = vq.used_index

\* virtq_push, when too few descriptors are free: the chains of the used ring go to the free list.
Reclaimed(vq) ==
    LET n == (vq.used_index - vq.last_used) % IndexMod
        after[k \in 0 .. n] ==
            IF k = 0 THEN vq
            ELSE LET q  == after[k - 1]
                     id == q.used[q.last_used % NumDescs]
                 IN  [q EXCEPT !.free_head = id, !.num_free = @ + Len(Chain(q, id)),
                               !.last_used = (@ + 1) % IndexMod]
    IN  after[n]

\* As Published, the index not advanced.
Unpublished(vq, head) == [vq EXCEPT !.avail[vq.avail_index % NumDescs] = head]

\* virtq_push, the end: the available ring gets the head of the chain.
Published(vq, head) ==
    [vq EXCEPT !.avail[vq.avail_index % NumDescs] = head, !.avail_index = (@ + 1) % IndexMod]

\* virtq_push: descriptors from the free list get the addresses.
Taken(vq, addrs) ==
    LET n  == Len(addrs)
        ds == Along(vq, vq.free_head, n)
        at(d) == CHOOSE k \in 1 .. n : ds[k] = d
    IN  [vq EXCEPT !.addr = [d \in Descs |-> IF \E k \in 1 .. n : ds[k] = d THEN addrs[at(d)] ELSE @[d]],
                   !.more = [d \in Descs |-> IF \E k \in 1 .. n : ds[k] = d THEN at(d) < n ELSE @[d]],
                   !.free_head = vq.next[ds[n]], !.next[ds[n]] = 0,
                   !.num_free = @ - n]

\* virtq_push: the queue, and whether there was room.
virtq_push(vq, addrs) ==
    LET r == IF Len(addrs) > vq.num_free THEN Reclaimed(vq) ELSE vq
    IN  IF Len(addrs) > r.num_free THEN [vq |-> r, ok |-> FALSE, head |-> 0]
        ELSE [vq |-> Published(Taken(r, addrs), r.free_head), ok |-> TRUE, head |-> r.free_head]

\* As Returned, the rest of the free list forgotten.
ReturnedAlone(vq, ds) ==
    [vq EXCEPT !.free_head = ds[1], !.num_free = @ + Len(ds), !.last_used = (@ + 1) % IndexMod]

\* As Returned, the same place of the used ring read again.
ReturnedAgain(vq, ds) ==
    [vq EXCEPT !.next[ds[Len(ds)]] = vq.free_head, !.free_head = ds[1], !.num_free = @ + Len(ds)]

\* virtq_pop: the descriptors of the chain go to the head of the free list.
Returned(vq, ds) ==
    [vq EXCEPT !.next[ds[Len(ds)]] = vq.free_head, !.free_head = ds[1],
               !.num_free = @ + Len(ds), !.last_used = (@ + 1) % IndexMod]

\* virtq_pop of a queue that is not empty: the chain and the queue afterwards.
virtq_pop(vq) ==
    LET ds == Chain(vq, vq.used[vq.last_used % NumDescs])
    IN  [vq |-> Returned(vq, ds), descs |-> ds, addrs |-> [k \in 1 .. Len(ds) |-> vq.addr[ds[k]]]]
-----------------------------------------------------------------------------
(* The device.                                                             *)

CanTake(vq) == vq.seen # vq.avail_index
NextTaken(vq) == vq.avail[vq.seen % NumDescs]
DeviceTakes(vq) == [vq EXCEPT !.busy = @ \cup {NextTaken(vq)}, !.seen = (@ + 1) % IndexMod]
DeviceUses(vq, d) ==
    [vq EXCEPT !.busy = @ \ {d}, !.used[vq.used_index % NumDescs] = d,
               !.used_index = (@ + 1) % IndexMod]
-----------------------------------------------------------------------------
(* Invariants of a queue, for the drivers' modules.                        *)

\* Ring entries the other side has not looked at yet.
Fresh(ring, from, to) == {ring[(from + k) % NumDescs] : k \in 0 .. ((to - from) % IndexMod) - 1}
Heads(vq) == Fresh(vq.avail, vq.seen, vq.avail_index) \cup vq.busy
                \cup Fresh(vq.used, vq.last_used, vq.used_index)
FreeDescs(vq) == Along(vq, vq.free_head, vq.num_free)
Elems(s) == {s[k] : k \in DOMAIN s}

\* Every descriptor is either in the free list or in exactly one chain that is under way.
QueueSound(vq) ==
    LET chains == {Elems(Chain(vq, h)) : h \in Heads(vq)}
    IN  /\ vq.num_free \in 0 .. NumDescs
        /\ Cardinality(Elems(FreeDescs(vq))) = vq.num_free
        /\ Elems(FreeDescs(vq)) \cup UNION chains = Descs
        /\ Elems(FreeDescs(vq)) \cap UNION chains = {}
        /\ \A c, d \in chains : c # d => c \cap d = {}
=============================================================================
