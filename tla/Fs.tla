--------------------------------- MODULE Fs ---------------------------------
(***************************************************************************)
(* The file system server (servers/fs): the block cache with its list of   *)
(* changed blocks (block.c), the bitmap, directories and files of HinaFS   *)
(* (fs.c), file descriptors and the message loop (main.c).                 *)
(*                                                                         *)
(* The server handles one request at a time and writes every changed block *)
(* back before it takes the next one.  What can come in between is a crash *)
(* (the disk is all that is left) or an error of the device.               *)
(*                                                                         *)
(* The block cache is a total function: a block that is not cached has the *)
(* contents block_read would read from the disk.                           *)
(***************************************************************************)
EXTENDS Integers, Sequences, FiniteSets, SequencesExt, FiniteSetsExt

CONSTANTS
    NumBlocks,          \* size of the disk, in blocks
    NumBits,            \* bits in the bitmap: more than there are blocks
    IndexMod,           \* block numbers are block_t (2^16)
    BLOCK_SIZE, BLOCKS_PER_ENTRY, OPEN_FILES_MAX,
    Clients,
    Paths,              \* paths the clients use: sequences of names
    DirPaths,           \* those that are only made as directories
    Ops,                \* requests the clients make
    Lens,               \* lengths of reads and writes
    DeviceFails,        \* the device may fail to write
    MaxOps, MaxCrashes  \* bounds on requests and crashes

ROOT_DIR_BLOCK  == 1
BITMAP_BLOCK    == 2    \* one bitmap block is enough here
FirstData       == 3
UNSET           == 65535    \* 0xffff: what mkhinafs puts into unused places of blocks[]
OK == "OK"
Blocks   == 0 .. NumBlocks - 1
Slots    == 0 .. BLOCKS_PER_ENTRY - 1
NoSlots  == [i \in Slots |-> 0]
NoBytes  == [i \in 0 .. BLOCK_SIZE - 1 |-> 0]

FsAssumption ==
    /\ {NumBlocks, NumBits, IndexMod, BLOCK_SIZE, BLOCKS_PER_ENTRY, OPEN_FILES_MAX, MaxOps, MaxCrashes}
         \subseteq Nat
    /\ NumBlocks > FirstData + 2 /\ BLOCK_SIZE > 0 /\ BLOCKS_PER_ENTRY > 0
    /\ Lens \subseteq 1 .. BLOCK_SIZE              \* a message carries less than a block

\* struct hinafs_entry and data blocks; n is size or num_entries (a union).
Block(type, name, n, blocks, bytes) ==
    [type |-> type, name |-> name, n |-> n, blocks |-> blocks, bytes |-> bytes]
Zeros == Block("none", "", 0, NoSlots, NoBytes)

VARIABLES
    disk,       \* [Blocks -> contents]
    cache,      \* the same, as the server sees it
    dirty,      \* dirty_blocks: sequence of block numbers
    fds,        \* open_files: [used, task, entry, offset]
    pc,         \* "recv", "flush", or "panic"
    ops, crashes,
    last        \* history: the last request and its result

vars == <<disk, cache, dirty, fds, pc, ops, crashes, last>>

Nothing == [op |-> "none", err |-> OK, path |-> <<>>, data |-> <<>>, off |-> 0, entry |-> 0]
Free    == [used |-> FALSE, task |-> 0, entry |-> 0, offset |-> 0]

TypeOK ==
    /\ DOMAIN disk = Blocks /\ DOMAIN cache = Blocks
    /\ \A b \in Blocks : cache[b].n \in 0 .. (BLOCKS_PER_ENTRY * BLOCK_SIZE)
    /\ dirty \in Seq(Blocks) /\ IsInjective(dirty)
    /\ fds \in [1 .. OPEN_FILES_MAX ->
                  [used : BOOLEAN, task : Clients \cup {0}, entry : Blocks, offset : Nat]]
    /\ pc \in {"recv", "flush", "panic"} /\ ops \in 0 .. MaxOps /\ crashes \in 0 .. MaxCrashes
-----------------------------------------------------------------------------
(* The block cache and the bitmap.  A state of the cache is a record       *)
(* [c |-> cache, d |-> dirty], passed from one helper to the next.         *)

block_mark_as_dirty(s, b) == IF b \in ToSet(s.d) THEN s ELSE [s EXCEPT !.d = Append(@, b)]

\* block_read fails beyond the end of the disk and for 0xffff.
Readable(b) == b \in Blocks

\* As alloc_block, not recorded.
AllocUnrecorded(s) ==
    LET bits == s.c[BITMAP_BLOCK].bytes
        zero == {j \in 0 .. NumBits - 1 : bits[j] = 0}
    IN  IF zero = {} THEN [s |-> s, index |-> 0]
        ELSE [s |-> block_mark_as_dirty(s, BITMAP_BLOCK), index |-> FirstData + Min(zero)]

\* alloc_block: the first free bit; [s, index], with index 0 if there is none.
alloc_block(s) ==
    LET bits == s.c[BITMAP_BLOCK].bytes
        zero == {j \in 0 .. NumBits - 1 : bits[j] = 0}
    IN  IF zero = {} THEN [s |-> s, index |-> 0]
        ELSE [s |-> block_mark_as_dirty([s EXCEPT !.c[BITMAP_BLOCK].bytes[Min(zero)] = 1], BITMAP_BLOCK),
              index |-> (FirstData + Min(zero)) % IndexMod]

\* free_block: the bit of the block's own number is cleared.
free_block(s, index) ==
    block_mark_as_dirty(
      IF index < NumBits THEN [s EXCEPT !.c[BITMAP_BLOCK].bytes[index] = 0] ELSE s, BITMAP_BLOCK)
-----------------------------------------------------------------------------
(* Directories.                                                            *)

Entries(c, dir) == {c[dir].blocks[i] : i \in 0 .. c[dir].n - 1}

\* As Named, never looking at the last entry.
NamedLast(c, dir, name) ==
    LET hits == {i \in 0 .. c[dir].n - 2 : c[c[dir].blocks[i]].name = name}
    IN  IF hits = {} THEN 0 ELSE c[dir].blocks[Min(hits)]

\* The first entry of a directory with a name; 0 if there is none.
Named(c, dir, name) ==
    LET hits == {i \in 0 .. c[dir].n - 1 : c[c[dir].blocks[i]].name = name}
    IN  IF hits = {} THEN 0 ELSE c[dir].blocks[Min(hits)]

\* Component k of a path, looked up in dir: the entry found, the answer of the walk, or
\* "more" with the directory to go on in.
walk_step(c, path, k, dir, parent) ==
    LET found == Named(c, dir, path[k])
    IN  CASE path[k] \in {"", "."} ->           \* past the end of the string if it is the last
                 IF k = Len(path) THEN [err |-> "panic", block |-> 0]
                 ELSE [err |-> "more", block |-> dir]
          [] path[k] = ".." -> [err |-> "INVALID_ARG", block |-> 0]
          [] OTHER ->
                 IF c[dir].type # "dir" THEN [err |-> "panic", block |-> 0]     \* DEBUG_ASSERT
                 ELSE IF found = 0 THEN [err |-> "NOT_FOUND", block |-> 0]
                 \* strchr(p + 1, '/') never sees the next slash: it has been overwritten.
                 ELSE IF k = Len(path) \/ parent THEN [err |-> OK, block |-> found]
                 ELSE [err |-> "more", block |-> found]

\* One component after another.
walk(c, path, parent) ==
    LET after[k \in 0 .. Len(path)] ==
            IF k = 0 THEN [err |-> "more", block |-> ROOT_DIR_BLOCK]
            ELSE LET w == after[k - 1]
                 IN  IF w.err = "more" THEN walk_step(c, path, k, w.block, parent) ELSE w
    IN  after[Len(path)]

lookup(c, path, parent) ==
    IF path = <<>> \/ (parent /\ Len(path) = 1) THEN [err |-> OK, block |-> ROOT_DIR_BLOCK]
    ELSE walk(c, path, parent)

Result(s, err) == [s |-> s, err |-> err]

\* As fs_create, without looking for the name first.
CreateAgain(s, path, type) ==
    LET dir == lookup(s.c, path, TRUE)
        a   == alloc_block(s)
        new == Block(type, path[Len(path)], 0, NoSlots, NoBytes)
    IN  IF path = <<>> \/ dir.err # OK \/ s.c[dir.block].n >= BLOCKS_PER_ENTRY \/ ~Readable(a.index) \/ a.index = 0
        THEN Result(s, "NO_RESOURCES")
        ELSE LET d == a.s.c[dir.block]
                 t == [a.s EXCEPT !.c[a.index] = new,
                                  !.c[dir.block] = [d EXCEPT !.blocks[d.n] = a.index, !.n = @ + 1]]
             IN  Result(block_mark_as_dirty(block_mark_as_dirty(t, dir.block), a.index), OK)

\* As fs_create, the new entry not marked as changed.
CreateUnmarked(s, path, type) ==
    LET r == CreateAgain(s, path, type)
    IN  IF lookup(s.c, path, FALSE).err = OK THEN Result(s, "ALREADY_EXISTS")
        ELSE IF r.err # OK THEN r
        ELSE Result([r.s EXCEPT !.d = SubSeq(@, 1, Len(@) - 1)], OK)

\* As fs_create, the block's bit set on the disk only after the entry.
CreateBitmapLast(s, path, type) ==
    LET r == CreateAgain(s, path, type)
    IN  IF lookup(s.c, path, FALSE).err = OK THEN Result(s, "ALREADY_EXISTS")
        ELSE IF r.err # OK THEN r ELSE Result([r.s EXCEPT !.d = Reverse(@)], OK)

fs_create(s, path, type) ==
    LET old == lookup(s.c, path, FALSE)
        dir == lookup(s.c, path, TRUE)
        a   == alloc_block(s)
        new == Block(type, path[Len(path)], 0, NoSlots, NoBytes)
    IN  CASE path = <<>> \/ path[Len(path)] = "" -> Result(s, "INVALID_ARG")
          [] old.err = "panic" -> Result(s, "panic")
          [] old.err = OK -> Result(s, "ALREADY_EXISTS")
          [] dir.err # OK -> Result(s, dir.err)
          [] s.c[dir.block].n >= BLOCKS_PER_ENTRY -> Result(s, "NO_RESOURCES")
          [] a.index = 0 -> Result(a.s, "NO_RESOURCES")
          [] ~Readable(a.index) -> Result(free_block(a.s, a.index), "IO")
          [] OTHER ->
               LET t == [a.s EXCEPT !.c[a.index] = new]
                   d == t.c[dir.block]
                   u == IF d.n >= BLOCKS_PER_ENTRY THEN t
                        ELSE [t EXCEPT !.c[dir.block] = [d EXCEPT !.blocks[d.n] = a.index, !.n = @ + 1]]
               IN  Result(block_mark_as_dirty(block_mark_as_dirty(u, dir.block), a.index), OK)

\* fs_delete, the data blocks: up to the first 0.
free_blocks(s, blocks) ==
    LET used == {i \in Slots : \A j \in 0 .. i : blocks[j] # 0}
        freed[n \in Nat] == IF n = 0 THEN s ELSE free_block(freed[n - 1], blocks[n - 1])
    IN  freed[Cardinality(used)]

\* fs_delete, the parent: the last entry takes the place of the deleted one.
Unlisted(d, b) ==
    LET places == {i \in 0 .. d.n - 1 : d.blocks[i] = b}
    IN  IF places = {} THEN d
        ELSE [d EXCEPT !.blocks = [@ EXCEPT ![Min(places)] = d.blocks[d.n - 1], ![d.n - 1] = 0],
                       !.n = @ - 1]

fs_delete(s, path) ==
    LET dir == lookup(s.c, path, TRUE)
        e   == lookup(s.c, path, FALSE)
        ent == s.c[e.block]
        t   == IF ent.type = "file" THEN free_blocks(s, ent.blocks) ELSE s
        u   == [t EXCEPT !.c[dir.block] = Unlisted(@, e.block)]
    IN  CASE dir.err # OK -> Result(s, dir.err)
          [] e.err # OK -> Result(s, e.err)
          [] ent.type \notin {"file", "dir"} -> Result(s, "panic")      \* UNREACHABLE
          [] ent.type = "dir" /\ ent.n > 0 -> Result(s, "NOT_EMPTY")
          [] OTHER -> Result(IF u.c[dir.block] = t.c[dir.block] THEN t
                             ELSE block_mark_as_dirty(u, dir.block), OK)
-----------------------------------------------------------------------------
(* Files.                                                                  *)

\* As Copied, always to the start of the block.
CopiedToStart(blk, at, data) ==
    [blk EXCEPT !.type = "data", !.name = "",
                !.bytes = [i \in DOMAIN @ |-> IF i + 1 \in DOMAIN data THEN data[i + 1] ELSE @[i]]]

\* memcpy into a block from position at; what does not fit goes to other memory.
Copied(blk, at, data) ==
    [blk EXCEPT !.type = "data", !.name = "",
                !.bytes = [i \in DOMAIN @ |-> IF i - at \in 0 .. Len(data) - 1 THEN data[i - at + 1] ELSE @[i]]]

\* One round of the write loop of readwrite, for place i of entry e, from position at of the
\* block.  Result: s, err and the bytes written.
write_block(s, e, i, at, data, total) ==
    LET a     == alloc_block(s)
        new   == s.c[e].blocks[i] = 0
        index == IF new THEN a.index ELSE s.c[e].blocks[i]
        t     == IF new THEN block_mark_as_dirty([a.s EXCEPT !.c[e].blocks[i] = index], e) ELSE s
        len   == Min({Len(data) - total, BLOCK_SIZE})
        u     == [t EXCEPT !.c[index] = Copied(@, at, SubSeq(data, total + 1, total + len))]
    IN  IF new /\ a.index = 0 THEN [s |-> a.s, err |-> "NO_RESOURCES", total |-> total]
        ELSE IF ~Readable(index) THEN [s |-> t, err |-> IF index = UNSET THEN "INVALID_ARG" ELSE "IO", total |-> total]
        ELSE [s |-> block_mark_as_dirty(u, index), err |-> OK, total |-> total + len]

\* The loop, from place first on; at is first_offset.
write_blocks(s, e, first, at, data) ==
    LET after[k \in Nat] ==
            IF k = 0 THEN [s |-> s, err |-> OK, total |-> 0]
            ELSE LET w == after[k - 1]
                     i == first + k - 1
                 IN  IF w.err # OK \/ w.total = Len(data) \/ i \notin Slots THEN w
                     ELSE write_block(w.s, e, i, IF k = 1 THEN at ELSE 0, data, w.total)
    IN  after[BLOCKS_PER_ENTRY]

\* readwrite, writing; the entry's size is set at the end, to offset + total_len.
write(s, e, data, offset) ==
    LET w == write_blocks(s, e, offset \div BLOCK_SIZE, offset % BLOCK_SIZE, data)
    IN  CASE s.c[e].type # "file" -> Result(s, "NOT_A_FILE")
          [] offset > s.c[e].n -> Result(s, "EOF")
          [] w.err # OK -> Result(w.s, w.err)
          [] OTHER -> Result(block_mark_as_dirty([w.s EXCEPT !.c[e].n = offset + w.total], e), OK)

\* Byte k of a file: what reading it gives.
ByteAt(c, e, k) ==
    LET b == c[e].blocks[k \div BLOCK_SIZE]
    IN  IF Readable(b) THEN c[b].bytes[k % BLOCK_SIZE] ELSE 0

\* readwrite, reading len =< BLOCK_SIZE bytes: all of them from one block, and what lies
\* behind it in memory.
read(c, e, len, offset) ==
    LET blk == c[c[e].blocks[offset \div BLOCK_SIZE]]
        at  == offset % BLOCK_SIZE
    IN  [k \in 1 .. len |-> IF at + k - 1 < BLOCK_SIZE THEN blk.bytes[at + k - 1] ELSE -1]
-----------------------------------------------------------------------------
(* mkhinafs.py, and the start of the server.                               *)

\* An image with one file, "i", of one full block.
ImageFile == Block("file", "i", BLOCK_SIZE, [i \in Slots |-> IF i = 0 THEN FirstData ELSE UNSET], NoBytes)
MadeDisk ==
    [b \in Blocks |->
       CASE b = ROOT_DIR_BLOCK ->
              Block("dir", "/", 1, [i \in Slots |-> IF i = 0 THEN FirstData + 1 ELSE UNSET], NoBytes)
         [] b = BITMAP_BLOCK ->
              Block("bitmap", "", 0, NoSlots, [j \in 0 .. NumBits - 1 |-> IF j < 2 THEN 1 ELSE 0])
         [] b = FirstData -> Block("data", "", 0, NoSlots, [i \in DOMAIN NoBytes |-> 7])
         [] b = FirstData + 1 -> ImageFile
         [] OTHER -> Zeros]

Init ==
    /\ disk = MadeDisk /\ cache = disk /\ dirty = <<>>
    /\ fds = [f \in 1 .. OPEN_FILES_MAX |-> Free]
    /\ pc = "flush" /\ ops = 0 /\ crashes = 0 /\ last = Nothing
-----------------------------------------------------------------------------
(* The message loop.                                                       *)

S == [c |-> cache, d |-> dirty]

Recv(op) == pc = "recv" /\ op \in Ops /\ ops < MaxOps /\ ops' = ops + 1

\* The reply, and back to the top of the loop.
Reply(r, l) ==
    /\ cache' = r.s.c /\ dirty' = r.s.d /\ last' = [l EXCEPT !.err = r.err]
    /\ pc' = IF r.err = "panic" THEN "panic" ELSE "flush"
    /\ UNCHANGED <<disk, crashes>>

do_create ==
    \E p \in Paths, type \in {"file", "dir"} :
        /\ p \in DirPaths => type = "dir"
        /\ Recv(IF type = "file" THEN "mkfile" ELSE "mkdir")
        /\ Reply(fs_create(S, p, type), [Nothing EXCEPT !.op = "create", !.path = p])
        /\ UNCHANGED fds

do_delete ==
    \E p \in Paths :
        /\ Recv("delete")
        /\ Reply(fs_delete(S, p), [Nothing EXCEPT !.op = "delete", !.path = p])
        /\ UNCHANGED fds

\* fs_readdir changes nothing.
do_readdir ==
    \E p \in Paths :
        LET d == lookup(cache, p, FALSE) IN
        /\ Recv("readdir")
        /\ Reply(Result(S, IF d.err # OK THEN d.err ELSE IF cache[d.block].type # "dir" THEN "NOT_A_DIR"
                           ELSE IF cache[d.block].n = 0 THEN "EOF" ELSE OK), Nothing)
        /\ UNCHANGED fds

\* alloc_fd: the first free place; 0 if there is none.
alloc_fd ==
    LET unused == {f \in DOMAIN fds : ~fds[f].used} IN IF unused = {} THEN 0 ELSE Min(unused)

do_open ==
    \E t \in Clients, p \in Paths :
        LET e == lookup(cache, p, FALSE) IN
        /\ Recv("open")
        /\ Reply(Result(S, IF e.err # OK THEN e.err ELSE IF alloc_fd = 0 THEN "NO_RESOURCES" ELSE OK),
                 [Nothing EXCEPT !.op = "open", !.path = p])
        /\ fds' = IF e.err # OK \/ alloc_fd = 0 THEN fds
                  ELSE [fds EXCEPT ![alloc_fd] = [used |-> TRUE, task |-> t, entry |-> e.block, offset |-> 0]]

\* As Mine, for whoever asks.
MineAll(t) == {f \in DOMAIN fds : fds[f].used}

\* lookup_open_file
Mine(t) == {f \in DOMAIN fds : fds[f].used /\ fds[f].task = t}

do_close ==
    \E t \in Clients, f \in DOMAIN fds :
        /\ Recv("close") /\ Reply(Result(S, OK), Nothing)
        /\ fds' = IF f \in Mine(t) THEN [fds EXCEPT ![f].used = FALSE] ELSE fds

do_write ==
    \E t \in Clients, f \in DOMAIN fds, len \in Lens :
        LET data == [k \in 1 .. len |-> t]              \* everyone writes bytes of his own
            r    == IF f \in Mine(t) THEN write(S, fds[f].entry, data, fds[f].offset)
                    ELSE Result(S, "BAD_FD")
        IN
        /\ Recv("write")
        /\ Reply(r, [Nothing EXCEPT !.op = "write", !.data = data, !.off = fds[f].offset, !.entry = fds[f].entry])
        /\ fds' = IF r.err = OK THEN [fds EXCEPT ![f].offset = @ + len] ELSE fds

do_read ==
    \E t \in Clients, f \in DOMAIN fds, len \in Lens :
        LET e   == fds[f].entry
            off == fds[f].offset
            n   == Min({len, cache[e].n - off})
        IN
        /\ Recv("read")
        /\ IF f \notin Mine(t) THEN Reply(Result(S, "BAD_FD"), Nothing) /\ UNCHANGED fds
           ELSE IF off >= cache[e].n \/ cache[e].type # "file"
           THEN Reply(Result(S, IF off >= cache[e].n THEN "EOF" ELSE "NOT_A_FILE"), Nothing) /\ UNCHANGED fds
           ELSE /\ Reply(Result(S, OK), [Nothing EXCEPT !.op = "read", !.data = read(cache, e, n, off),
                                                        !.off = off, !.entry = e])
                /\ fds' = [fds EXCEPT ![f].offset = @ + n]

\* TASK_DESTROYED from the VM server.
do_task_destroyed ==
    \E t \in Clients :
        /\ Recv("destroyed") /\ Reply(Result(S, OK), Nothing)
        /\ fds' = [f \in DOMAIN fds |-> IF f \in Mine(t) THEN [fds[f] EXCEPT !.used = FALSE] ELSE fds[f]]

\* block_flush_all, one block; an error of the device is only reported.  block_write is eight
\* writes of a sector each; a crash between them, which tears the block, is left out.
block_flush ==
    /\ pc = "flush" /\ dirty # <<>>
    /\ \/ disk' = [disk EXCEPT ![Head(dirty)] = cache[Head(dirty)]]
       \/ DeviceFails /\ UNCHANGED disk
    /\ dirty' = Tail(dirty)
    /\ UNCHANGED <<cache, fds, pc, ops, crashes, last>>

block_flush_end ==
    /\ pc = "flush" /\ dirty = <<>> /\ pc' = "recv"
    /\ UNCHANGED <<disk, cache, dirty, fds, ops, crashes, last>>

\* The machine stops and starts again; fs_init and an empty cache.
crash ==
    /\ crashes < MaxCrashes /\ crashes' = crashes + 1
    /\ cache' = disk /\ dirty' = <<>> /\ fds' = [f \in DOMAIN fds |-> Free]
    /\ pc' = "flush" /\ last' = Nothing
    /\ UNCHANGED <<disk, ops>>

Request == do_create \/ do_delete \/ do_readdir \/ do_open \/ do_close \/ do_write \/ do_read \/ do_task_destroyed
Next == Request \/ block_flush \/ block_flush_end \/ crash

Spec == Init /\ [][Next]_vars
-----------------------------------------------------------------------------
(* Properties.                                                             *)

\* All entries below the root (three levels are more than Paths make).
Below(c, dirs) == dirs \cup UNION {Entries(c, d) : d \in {x \in dirs \cap Blocks : c[x].type = "dir"}}
AllEntries(c)  == (Below(c, Below(c, Below(c, {ROOT_DIR_BLOCK})))) \cap Blocks
Used(d, i) == IF d.type = "dir" THEN i < d.n ELSE d.blocks[i] \notin {0, UNSET}
Refs(c) == {r \in AllEntries(c) \X Slots : c[r[1]].type \in {"dir", "file"} /\ Used(c[r[1]], r[2])}
Target(c, r) == c[r[1]].blocks[r[2]]

\* The order in which blocks are written back: at every moment, and so after a crash at any
\* moment, each block the directories and files on the disk refer to is marked as used there.
RefsAllocated ==
    \A r \in Refs(disk) : Target(disk, r) < NumBlocks =>
        disk[BITMAP_BLOCK].bytes[Target(disk, r) - FirstData] = 1

\* When the server waits for a request, everything it has done is on the disk.
IdleSaved == pc = "recv" => disk = cache

\* No block belongs to two entries or files, and none of the header, root and bitmap to any.
BlocksOwned ==
    /\ \A r, q \in Refs(cache) : Target(cache, r) = Target(cache, q) => r = q
    /\ \A r \in Refs(cache) : Target(cache, r) >= FirstData

\* A directory holds no two entries of one name.
NamesUnique ==
    \A d \in AllEntries(cache) : cache[d].type = "dir" =>
        \A x, y \in Entries(cache, d) \cap Blocks : cache[x].name = cache[y].name => x = y

\* A write that is answered with success has stored all its bytes at its offset.
StoresAll ==
    last.op = "write" /\ last.err = OK =>
        /\ cache[last.entry].n = last.off + Len(last.data)
        /\ \A k \in 1 .. Len(last.data) : ByteAt(cache, last.entry, last.off + k - 1) = last.data[k]

\* Files as sequences of bytes: module FileSpec.
Names == {p[1] : p \in {q \in Paths : Len(q) = 1}}
Contents(n) ==
    LET e == Named(cache, ROOT_DIR_BLOCK, n)
    IN  IF e = 0 THEN <<-1>> ELSE [k \in 1 .. cache[e].n |-> ByteAt(cache, e, k - 1)]
Files == INSTANCE FileSpec WITH
    files  <- [n \in Names |-> Contents(n)],
    open   <- [f \in DOMAIN fds |-> IF fds[f].used
                 THEN [task |-> fds[f].task, name |-> cache[fds[f].entry].name, offset |-> fds[f].offset]
                 ELSE [task |-> 0, name |-> "", offset |-> 0]],
    result <- IF last.op = "read" THEN last.data ELSE <<>>

\* The server implements FileSpec: through bitmap, blocks and cache, every file keeps
\* exactly the bytes written to it, whoever else writes, and every read returns them.
ImplementsFiles == Files!Spec

\* What has been created at a path is found at that path.
CreatedFound == last.op = "create" /\ last.err = OK => lookup(cache, last.path, FALSE).err = OK
-----------------------------------------------------------------------------
(* What the source says and the code does not do (README, Disagreements).  *)

\* struct hinafs_entry: what a directory refers to is a file or a directory.
EntriesValid == \A e \in AllEntries(cache) : cache[e].type \in {"file", "dir"}

\* readwrite: a place without a data block gets one; a write only fails when the disk is full.
Extends == last.op = "write" => last.err # "INVALID_ARG"

\* The bitmap: a block that nothing refers to is free.
NoLeak ==
    pc = "recv" => \A j \in 0 .. NumBits - 1 : cache[BITMAP_BLOCK].bytes[j] = 1 =>
        \E r \in Refs(cache) : Target(cache, r) = j + FirstData

\* DEBUG_ASSERT(dir->type == FS_TYPE_DIR), and pointers into the path stay inside it.
NoPanic == pc # "panic"
=============================================================================
