----------------------------- MODULE VirtioBlk -----------------------------
(***************************************************************************)
(* The driver of the disk (servers/virtio_blk/main.c) and the disk.  It    *)
(* handles one request at a time, in a chain of three descriptors, and     *)
(* polls the used ring for the answer.  The request lies in the one DMA    *)
(* buffer.  Sectors beyond the end of the disk make the device fail.       *)
(***************************************************************************)
EXTENDS Virtqueue

CONSTANTS
    NumSectors,     \* size of the disk
    AskSectors,     \* sectors that clients ask for
    Lens,           \* lengths they ask for, in half sectors: 2 is SECTOR_SIZE
    MaxRequests     \* bound

BlkAssumption == NumSectors \in Nat /\ AskSectors \subseteq Nat /\ MaxRequests \in Nat

SECTOR_SIZE == 2
NoReq == [write |-> FALSE, sector |-> 0, data |-> 0, ok |-> TRUE]

VARIABLES
    vq, buf_used,
    req,            \* struct virtio_blk_req: what the DMA buffer holds
    disk,           \* [sectors -> contents]; the n-th request writes n
    pc,             \* "recv", "poll", "done" or "dead"
    head,           \* index_or_err
    asked,          \* requests so far
    answer,         \* the last answer: [err, data], and the request it is for
    notified

vars == <<vq, buf_used, req, disk, pc, head, asked, answer, notified>>

TypeOK ==
    /\ vq.num_free \in 0 .. NumDescs /\ buf_used \in BOOLEAN
    /\ disk \in [0 .. NumSectors - 1 -> 0 .. MaxRequests]
    /\ pc \in {"recv", "poll", "done", "dead"} /\ head \in Descs /\ asked \in 0 .. MaxRequests

Init ==
    /\ vq = NewQueue /\ buf_used = FALSE /\ req = NoReq /\ disk = [s \in 0 .. NumSectors - 1 |-> 0]
    /\ pc = "recv" /\ head = 0 /\ asked = 0 /\ notified = FALSE
    /\ answer = [err |-> "none", data |-> 0, write |-> FALSE, sector |-> 0]

Answered(err, data, w, s) == answer' = [err |-> err, data |-> data, write |-> w, sector |-> s]

\* BLK_READ, BLK_WRITE: read_write up to virtq_notify.  The three descriptors are the header,
\* the data and the status.
read_write ==
    \E w \in BOOLEAN, s \in AskSectors, len \in Lens :
        LET p == virtq_push(vq, <<"header", "data", "status">>) IN
        /\ pc = "recv" /\ asked < MaxRequests /\ asked' = asked + 1
        /\ IF len % SECTOR_SIZE # 0 \/ len > SECTOR_SIZE
           THEN Answered("INVALID", 0, w, s) /\ UNCHANGED <<vq, buf_used, req, pc, head, notified>>
           ELSE IF buf_used
           THEN Answered("TRY_AGAIN", 0, w, s) /\ UNCHANGED <<vq, buf_used, req, pc, head, notified>>
           ELSE /\ buf_used' = TRUE
                /\ req' = [req EXCEPT !.write = w, !.sector = s, !.data = IF w THEN asked' ELSE @]
                /\ vq' = p.vq
                /\ IF p.ok THEN pc' = "poll" /\ head' = p.head /\ notified' = TRUE /\ UNCHANGED answer
                   ELSE Answered("NO_MEMORY", 0, w, s) /\ UNCHANGED <<pc, head, notified>>
        /\ UNCHANGED disk

\* The device carries the request out.
device ==
    /\ notified /\ CanTake(vq)
    /\ vq' = DeviceUses(DeviceTakes(vq), NextTaken(vq))
    /\ LET inside == req.sector < NumSectors IN
       /\ disk' = IF inside /\ req.write THEN [disk EXCEPT ![req.sector] = req.data] ELSE disk
       /\ req' = [req EXCEPT !.data = IF inside /\ ~req.write THEN disk[req.sector] ELSE @,
                             !.ok = inside]
    /\ notified' = FALSE
    /\ UNCHANGED <<buf_used, pc, head, asked, answer>>

\* As Polled, without waiting.
PolledAtOnce == TRUE

\* The busy wait is over.
Polled == ~virtq_is_empty(vq)

\* As Checked, looking at the last descriptor.
CheckedTail(r) == Len(r.descs) = 3 /\ r.descs[3] = head

\* ASSERT(n == 3), ASSERT(chain[0].desc_index == index_or_err)
Checked(r) == Len(r.descs) = 3 /\ r.descs[1] = head

\* As Freed, the buffer kept.
Kept == UNCHANGED buf_used

\* dmabuf_free
Freed == buf_used' = FALSE

\* The rest of read_write, with its assertions, and the reply.
finish ==
    LET r == virtq_pop(vq) IN
    /\ pc = "poll" /\ Polled
    /\ vq' = r.vq
    /\ IF Checked(r) /\ req.ok
       THEN pc' = "recv" /\ Freed /\ Answered("OK", req.data, req.write, req.sector)
       ELSE pc' = "dead" /\ UNCHANGED <<buf_used, answer>>
    /\ UNCHANGED <<req, disk, head, asked, notified>>

Next == read_write \/ device \/ finish

Spec == Init /\ [][Next]_vars
-----------------------------------------------------------------------------
\* Chains of three come and go; no descriptor is lost or in two chains.
DescsSound == QueueSound(vq)

\* An answer is for the request it answers: it carries the contents of that sector.
AnswerRight == pc = "recv" /\ answer.err = "OK" => answer.data = disk[answer.sector]

\* ASSERT(chain[0].desc_index == index_or_err), ASSERT(req->status == VIRTIO_BLK_S_OK): the
\* driver lives.
DriverAlive == pc # "dead"

\* Every request is answered: the device's polling loop ends.
Answers == []<>(pc = "recv")
=============================================================================
