------------------------------ MODULE Memory ------------------------------
(***************************************************************************)
(* Physical pages and page tables: kernel/memory.c, kernel/riscv32/vm.c,   *)
(* what task creation and destruction do with them (kernel/task.c,         *)
(* kernel/riscv32/task.c), and the VM server, which pages for every other  *)
(* task (servers/vm/page_fault.c, pm.c).                                   *)
(*                                                                         *)
(* The lists of pages are kept as pointers, because a page can stay linked *)
(* into the list of a task that is gone.  Every operation is atomic: the   *)
(* VM server is sequential and the big lock is given up only to wait for   *)
(* an IPI, which module Ipi is about.  One first-level entry covers all    *)
(* addresses of a task; access rights are left out.                        *)
(***************************************************************************)
EXTENDS Integers, Sequences, FiniteSets

CONSTANTS
    NumPages,       \* pages of the RAM zone
    BeyondFree,     \* whether the memory after the zone's page structures reads as free ones
    NumDevices,     \* pages of the MMIO zone
    Slots,          \* task ids besides the VM server's
    Uaddrs,         \* user addresses: "lo", "hi", in the half of a table
    StackPages,     \* KERNEL_STACK_SIZE
    Segments,       \* what a fault may hit: "file", "bss"
    MaxPages,       \* pages allocated to one task
    MaxCreates      \* tasks created in all

VM == 1             \* the VM server
TMP == "tmp"        \* its tmp_page

MemoryAssumption ==
    /\ NumPages \in Nat /\ BeyondFree \in BOOLEAN /\ Slots \subseteq Nat \ {0, VM}
    /\ NumDevices \in Nat /\ TMP \notin Uaddrs
    /\ StackPages \in Nat \ {0} /\ MaxPages \in Nat /\ MaxCreates \in Nat

\* The structures after the end of the zone can be read and written as well.
Ram == 1 .. NumPages + StackPages - 1
Zone == 1 .. NumPages
Devices == 100 .. 99 + NumDevices
Pages == Ram \cup Devices
Tasks == {VM} \cup Slots
NULL == 0           \* no page, no task, no list

VARIABLES
    mem,            \* [ref, owner : struct page; next, prev : the lists; pte; l2]
    alive,          \* task ids in use
    table, stack,   \* first-level table and first page of the kernel stack of a task
    got,            \* history: the pages allocated to each task
    l2s,            \* history: all second-level tables
    created,        \* history: number of tasks created
    vm_server       \* "runs", or "panic" when an assertion of it failed

vars == <<mem, alive, table, stack, got, l2s, created, vm_server>>

\* The head of the list task->pages.
Head_(t) == -t
Cells == Pages \cup {Head_(t) : t \in Tasks}
-----------------------------------------------------------------------------
(* Lists (libs/common/list.c).                                             *)

list_init(m, h) == [m EXCEPT !.next[h] = h, !.prev[h] = h]

\* (list_elem_init: pm_alloc forgets any link the structure may have had.)
list_push_back(m, h, e) ==
    LET tail == m.prev[h]
    IN [m EXCEPT !.next = [@ EXCEPT ![e] = h, ![tail] = e],
                 !.prev = [@ EXCEPT ![e] = tail, ![h] = e]]

list_remove(m, e) ==
    IF m.next[e] = NULL THEN m
    ELSE [m EXCEPT !.next = [[@ EXCEPT ![m.prev[e]] = m.next[e]] EXCEPT ![e] = NULL],
                   !.prev = [[@ EXCEPT ![m.next[e]] = m.prev[e]] EXCEPT ![e] = NULL]]

\* The pages LIST_FOR_EACH visits: the cells n steps from the head on, up to a head.
Walk(m, h) ==
    LET within[n \in Nat] ==
            IF n = 0 THEN {m.next[h]}
            ELSE LET w == within[n - 1] IN w \cup {m.next[c] : c \in w \cap Pages}
    IN within[Cardinality(Pages)] \cap Pages
-----------------------------------------------------------------------------
(* Physical pages.                                                         *)

is_contiguously_free(m, start, n) == \A i \in start .. start + n - 1 : m.ref[i] = 0

\* The page pm_alloc takes for n pages: the first fit, or NULL.
FirstFit(m, n) ==
    LET fits == {s \in Zone : (s - 1) % n = 0 /\ is_contiguously_free(m, s, n)}
    IN IF fits = {} THEN NULL ELSE CHOOSE s \in fits : \A x \in fits : s =< x

\* The n pages from i on, put at the end of list h.
Linked(m, h, i, n) ==
    LET linked[k \in Nat] == IF k = 0 THEN m ELSE list_push_back(linked[k - 1], h, i + k - 1)
    IN linked[n]

\* As Taken, without a reference.
TakenUncounted(m, start, n, owner) ==
    LET run == start .. start + n - 1
        m1 == [m EXCEPT !.owner = [p \in Pages |-> IF p \in run THEN owner ELSE @[p]],
                        !.next = [c \in Cells |-> IF c \in run THEN NULL ELSE @[c]],
                        !.prev = [c \in Cells |-> IF c \in run THEN NULL ELSE @[c]]]
    IN IF owner = NULL THEN m1 ELSE Linked(m1, Head_(owner), start, n)

\* As Taken, without a place in the owner's list.
TakenUnlisted(m, start, n, owner) ==
    LET run == start .. start + n - 1
    IN [m EXCEPT !.ref = [p \in Pages |-> IF p \in run THEN 1 ELSE @[p]],
                 !.owner = [p \in Pages |-> IF p \in run THEN owner ELSE @[p]]]

\* pm_alloc's pages, with one reference each and in the list of their owner.
Taken(m, start, n, owner) ==
    LET run == start .. start + n - 1
    IN [TakenUncounted(m, start, n, owner) EXCEPT
            !.ref = [p \in Pages |-> IF p \in run THEN 1 ELSE @[p]]]

pm_alloc(m, n, owner) ==
    LET s == FirstFit(m, n)
    IN [page |-> s, m |-> IF s = NULL THEN m ELSE Taken(m, s, n, owner)]

free_page(m, p) ==
    LET m1 == [m EXCEPT !.ref[p] = @ - 1] IN IF m1.ref[p] = 0 THEN list_remove(m1, p) ELSE m1

\* free_page for every page of ps.
free_pages(m, ps) ==
    LET freed[s \in SUBSET ps] ==
            IF s = {} THEN m ELSE LET p == CHOOSE p \in s : TRUE IN free_page(freed[s \ {p}], p)
    IN freed[ps]

pm_free(m, start, n) == free_pages(m, start .. start + n - 1)
pm_free_by_list(m, t) == free_pages(m, Walk(m, Head_(t)))
-----------------------------------------------------------------------------
(* Page tables.                                                            *)

\* walk with alloc: the second-level table is made when it is missing.
walk_alloc(m, t) ==
    IF m.l2[t] # NULL THEN [ok |-> TRUE, m |-> m]
    ELSE LET a == pm_alloc(m, 1, NULL)
         IN IF a.page = NULL THEN [ok |-> FALSE, m |-> m]
            ELSE [ok |-> TRUE, m |-> [a.m EXCEPT !.l2[t] = a.page]]

\* As Mappable, for a device that may be mapped again.
MappableTwice(m, t, p) == p \in Devices \/ m.owner[p] = t \/ t = VM

\* The checks of vm_map.
Mappable(m, t, p) ==
    IF p \in Devices THEN m.ref[p] = 0
    ELSE m.ref[p] # 0 /\ m.owner[p] # NULL /\ (m.owner[p] = t \/ (m.owner[p] # VM /\ t = VM))

\* As Counted, for a mapping that is not counted.
Uncounted(m, p) == m

Counted(m, p) == [m EXCEPT !.ref[p] = @ + 1]

\* vm_map and arch_vm_map.
vm_map(m, t, u, p) ==
    LET w == walk_alloc(m, t)
        mapped == [w.m EXCEPT !.pte[t][u] = p]
        listed == IF p \in Devices THEN list_push_back(mapped, Head_(t), p) ELSE mapped
    IN IF ~Mappable(m, t, p) THEN [ok |-> FALSE, m |-> m]
       ELSE IF ~w.ok \/ w.m.pte[t][u] # NULL THEN [ok |-> FALSE, m |-> w.m]
       ELSE [ok |-> TRUE, m |-> Counted(listed, p)]

\* vm_unmap and arch_vm_unmap, of an address that is mapped.
vm_unmap(m, t, u) == LET p == m.pte[t][u] IN free_page([m EXCEPT !.pte[t][u] = NULL], p)

\* vm_unmap for every address of us.
unmap_all(m, t, us) ==
    LET unmapped[s \in SUBSET us] ==
            IF s = {} THEN m ELSE LET u == CHOOSE u \in s : TRUE IN vm_unmap(unmapped[s \ {u}], t, u)
    IN unmapped[us]

\* arch_vm_destroy looks at half of each second-level table, and does not free the tables.
arch_vm_destroy(m, t) ==
    LET m1 == unmap_all(m, t, {u \in Uaddrs \ {"hi"} : m.pte[t][u] # NULL})
    IN pm_free([m1 EXCEPT !.pte[t] = [u \in DOMAIN @ |-> NULL], !.l2[t] = NULL], table[t], 1)
-----------------------------------------------------------------------------
\* The VM server has one page, mapped at tmp_page, which the boot code allocated.
Init ==
    /\ LET ref0 == [p \in Pages |-> IF p = 1 THEN 2 ELSE IF p \in {2, 3} THEN 1
                                    ELSE IF p \in Zone \cup Devices \/ BeyondFree THEN 0 ELSE 1]
           heads == [c \in Cells |-> IF c \in Pages THEN NULL ELSE c]
       IN mem = list_push_back(
                    [ref |-> ref0, owner |-> [p \in Pages |-> IF p = 1 THEN VM ELSE NULL],
                     next |-> heads, prev |-> heads,
                     pte |-> [t \in Tasks |-> [u \in Uaddrs \cup {TMP} |->
                                 IF t = VM /\ u = TMP THEN 1 ELSE NULL]],
                     l2 |-> [t \in Tasks |-> IF t = VM THEN 2 ELSE NULL]], Head_(VM), 1)
    /\ alive = {VM}
    /\ table = [t \in Tasks |-> IF t = VM THEN 3 ELSE NULL]
    /\ stack = [t \in Tasks |-> NULL]
    /\ got = [t \in Tasks |-> IF t = VM THEN {1} ELSE {}]
    /\ l2s = {2} /\ created = 0 /\ vm_server = "runs"

L2sOf(m) == (l2s \cup {m.l2[t] : t \in Tasks}) \ {NULL}

\* alloc_tid.
NewTid == CHOOSE s \in Tasks \ alive : \A x \in Tasks \ alive : s =< x

\* init_task_struct for task t, with arch_vm_init and arch_task_init.
init_task_struct(m, t) ==
    LET a == pm_alloc(list_init(m, Head_(t)), 1, NULL)
        b == pm_alloc(a.m, StackPages, NULL)
    IN IF a.page = NULL THEN [ok |-> FALSE, m |-> a.m]
       ELSE IF b.page = NULL THEN [ok |-> FALSE, m |-> pm_free(a.m, a.page, 1)]
       ELSE [ok |-> TRUE, m |-> b.m, table |-> a.page, stack |-> b.page]

\* Task t is there, with the pages ps of its own.
Created(t, r, ps) ==
    /\ alive' = alive \cup {t} /\ created' = created + 1
    /\ table' = [table EXCEPT ![t] = r.table] /\ stack' = [stack EXCEPT ![t] = r.stack]
    /\ got' = [got EXCEPT ![t] = ps]

task_create ==
    /\ vm_server = "runs" /\ alive # Tasks /\ created < MaxCreates
    /\ LET r == init_task_struct(mem, NewTid)
       IN /\ mem' = r.m
          /\ \/ r.ok /\ Created(NewTid, r, {})
             \/ ~r.ok /\ UNCHANGED <<alive, table, stack, got, created>>
    /\ UNCHANGED <<l2s, vm_server>>

\* The program is put on a page of the kernel's; pm_own_page gives it to the task.
hinavm_create ==
    /\ vm_server = "runs" /\ alive # Tasks /\ created < MaxCreates
    /\ LET a == pm_alloc(mem, 1, NULL)
           r == init_task_struct(a.m, NewTid)
           owned == [r.m EXCEPT !.owner[a.page] = NewTid]
       IN \/ a.page = NULL /\ UNCHANGED <<mem, alive, table, stack, got, created>>
          \/ /\ a.page # NULL /\ ~r.ok
             /\ mem' = pm_free(r.m, a.page, 1)
             /\ UNCHANGED <<alive, table, stack, got, created>>
          \/ /\ a.page # NULL /\ r.ok
             /\ mem' = list_push_back(owned, Head_(NewTid), a.page)
             /\ Created(NewTid, r, {a.page})
    /\ UNCHANGED <<l2s, vm_server>>

\* VM_ALLOC_PHYSICAL_MSG: alloc_pages and map_pages for one page.
alloc_pages(t, u) ==
    /\ vm_server = "runs" /\ t \in alive \ {VM} /\ Cardinality(got[t]) < MaxPages
    /\ mem.pte[t][u] = NULL                      \* valloc gives fresh addresses
    /\ LET a == pm_alloc(mem, 1, t)
           b == vm_map(a.m, t, u, a.page)
       IN /\ a.page # NULL
          /\ mem' = b.m /\ l2s' = L2sOf(b.m)
          /\ got' = [got EXCEPT ![t] = @ \cup {a.page}]
    /\ UNCHANGED <<alive, table, stack, created, vm_server>>

\* VM_MAP_PHYSICAL_MSG: map_pages for a device.
map_pages(t, u, d) ==
    /\ vm_server = "runs" /\ t \in alive \ {VM} /\ mem.pte[t][u] = NULL
    /\ LET b == vm_map(mem, t, u, d) IN mem' = b.m /\ l2s' = L2sOf(b.m)
    /\ UNCHANGED <<alive, table, stack, got, created, vm_server>>

\* PAGE_FAULT_MSG for an address of a segment that is not mapped: handle_page_fault.
handle_page_fault(t, u, seg) ==
    /\ vm_server = "runs" /\ t \in alive \ {VM} /\ mem.pte[t][u] = NULL
    /\ Cardinality(got[t]) < MaxPages
    /\ LET a == pm_alloc(mem, 1, t)
           c == IF seg = "bss" THEN [ok |-> TRUE, m |-> a.m]
                ELSE vm_map(vm_unmap(a.m, VM, TMP), VM, TMP, a.page)
           d == vm_map(c.m, t, u, a.page)
       IN /\ a.page # NULL
          /\ mem' = d.m /\ l2s' = L2sOf(d.m)
          /\ vm_server' = IF c.ok /\ d.ok THEN "runs" ELSE "panic"
          /\ got' = [got EXCEPT ![t] = @ \cup {a.page}]
    /\ UNCHANGED <<alive, table, stack, created>>

\* The last part of task_destroy.
task_destroy(t) ==
    /\ vm_server = "runs" /\ t \in alive \ {VM}
    /\ mem' = pm_free_by_list(pm_free(arch_vm_destroy(mem, t), stack[t], StackPages), t)
    /\ alive' = alive \ {t} /\ got' = [got EXCEPT ![t] = {}]
    /\ UNCHANGED <<table, stack, l2s, created, vm_server>>

Next ==
    \/ task_create \/ hinavm_create
    \/ \E t \in Slots :
        \/ task_destroy(t)
        \/ \E u \in Uaddrs : \/ alloc_pages(t, u)
                             \/ \E d \in Devices : map_pages(t, u, d)
                             \/ \E seg \in Segments : handle_page_fault(t, u, seg)

Spec == Init /\ [][Next]_vars
-----------------------------------------------------------------------------
TypeOK ==
    /\ mem.ref \in [Pages -> Nat] /\ mem.owner \in [Pages -> Tasks \cup {NULL}]
    /\ mem.next \in [Cells -> Cells \cup {NULL}] /\ mem.prev \in [Cells -> Cells \cup {NULL}]
    /\ mem.pte \in [Tasks -> [Uaddrs \cup {TMP} -> Pages \cup {NULL}]]
    /\ alive \subseteq Tasks /\ vm_server \in {"runs", "panic"}

\* How often page p is in use: allocated, and once for every mapping.
Uses(p) ==
    LET stacks == UNION {stack[t] .. stack[t] + StackPages - 1 : t \in alive \ {VM}}
    IN Cardinality({t \in alive : p \in got[t] \/ p = table[t]}) + (IF p \in stacks THEN 1 ELSE 0)
       + Cardinality({tu \in alive \X (Uaddrs \cup {TMP}) : mem.pte[tu[1]][tu[2]] = p})

\* struct page: ref_count is 0 for a free page, 1 for one that is allocated, and one more
\* for every mapping.  No page is given back while it is used, and none is lost.
\* (Second-level tables are looked at by TablesFreed.)
RefCount == \A p \in (Zone \cup Devices) \ l2s : mem.ref[p] = Uses(p)

\* struct page: next is the element of the owner's list of pages, so that what is
\* allocated to a task is freed with it.
PagesListed == \A t \in alive : got[t] \subseteq Walk(mem, Head_(t))

\* A page belongs to one task, or is one table or stack.
NoSharing ==
    \A t, s \in alive : t # s => (got[t] \cup {table[t], stack[t]}) \cap
                                 (got[s] \cup {table[s], stack[s]}) = {}

\* The comment in vm_map: a device is mapped by one task at a time.
DeviceExclusive == \A d \in Devices : Cardinality({t \in alive : \E u \in Uaddrs : mem.pte[t][u] = d}) =< 1
-----------------------------------------------------------------------------
(* What the source says and the code does not do (README, Disagreements).  *)

\* handle_page_fault of the VM server: it returns an error when the page cannot be mapped.
PagerSurvives == vm_server = "runs"

\* arch_vm_destroy: destroys the page tables, the second-level ones too.
TablesFreed == \A p \in l2s : mem.ref[p] > 0 => \E t \in alive : mem.l2[t] = p \/ p \in got[t] \/ p \in {table[t], stack[t]}

\* is_contiguously_free: the pages that are allocated are free pages of the zone.
InZone == \A t \in alive \ {VM} : stack[t] + StackPages - 1 =< NumPages
=============================================================================
