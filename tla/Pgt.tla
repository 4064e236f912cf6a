-------------------------------- MODULE Pgt --------------------------------
(***************************************************************************)
(* The page tables (arch/x86_64/pgt.c) and the functions of arch.c that    *)
(* memory.c maps and unmaps memory with: four levels of tables, a pool of  *)
(* pages for tables in every page table, page directories of the kernel    *)
(* that every process refers to, and the translations a CPU has cached.    *)
(*                                                                         *)
(* A virtual address is its page number.  All addresses in use have index  *)
(* 0 in the PML4; the PDPT has an entry for every GiB.  GiB 0 of the model *)
(* is the block of a process, GiB 1 the kernel block and the others the    *)
(* linear map.  Entries are never global and pages never copied on write,  *)
(* since no caller passes MEMORY_VMF_GLOBAL or MEMORY_VMF_COW.             *)
(***************************************************************************)
EXTENDS Integers, Sequences, FiniteSets

CONSTANTS PdFan, PtFan,   \* entries of a page directory and of a page table (512)
          SuperOrder,     \* MEMORY_SUPERPAGESIZE_SHIFT - MEMORY_PAGESIZE_SHIFT
          LinearGibs,     \* length of the linear map
          KTables, PTables, \* pages pgt_init gets, for the kernel and a process (512)
          NProcs,
          MaxPages,       \* bound: page_t in use
          MaxTlb          \* bound: cached translations

(* The orders of a page_t, and the pages that it has.                      *)
Orders == 0 .. SuperOrder + 1
Size[o \in Orders] == IF o = 0 THEN 1 ELSE 2 * Size[o - 1]

ASSUME PgtAssumption ==
    /\ PdFan \in Nat \ {0} /\ SuperOrder \in Nat /\ PtFan = Size[SuperOrder]
    /\ LinearGibs \in Nat \ {0} /\ NProcs \in Nat
    /\ KTables \in Nat /\ KTables >= 3 + LinearGibs /\ PTables \in Nat \ {0, 1, 2}
    /\ MaxPages \in Nat /\ MaxTlb \in Nat

Kernel == 0
Procs  == 1 .. NProcs
Spaces == {Kernel} \cup Procs

GibPages    == PdFan * PtFan
Gibs        == 0 .. 1 + LinearGibs
OwnPages    == 0 .. GibPages - 1
SharedPages == GibPages .. (2 + LinearGibs) * GibPages - 1
KernelBlock == GibPages .. 2 * GibPages - 1
Linear      == 2 * GibPages

Gib(v) == v \div GibPages
Dir(v) == (v \div PtFan) % PdFan
Idx(v) == v % PtFan

(* The pages given to pgt_init; the first is the PML4.                     *)
NTables(s) == IF s = Kernel THEN KTables ELSE PTables
TablesOf(s) == {s} \X (1 .. NTables(s))
Tables == UNION {TablesOf(s) : s \in Spaces}
Cr3(s) == <<s, 1>>

(* Entries: not present, pointer to a table, or a page of memory.          *)
None          == [kind |-> "none"]
Ptr(t)        == [kind |-> "table", to |-> t]
Leaf(f, w, u) == [kind |-> "page", to |-> f, rw |-> w, user |-> u]

Slots == 0 .. (IF PdFan > PtFan THEN PdFan ELSE PtFan) + LinearGibs
Empty == [i \in Slots |-> None]

VARIABLES mem,    \* the entries of every table
          pool,   \* pgt_t.free of every page table
          live,   \* processes with a page table
          pages,  \* page_t of the objects: what is mapped where
          cr3,    \* the space whose PML4 is in CR3
          tlb     \* the translations the CPU has cached

vars == <<mem, pool, live, pages, cr3, tlb>>

-----------------------------------------------------------------------------
(* The operations change a pair m = [mem, pool].  Enter is what pgt_map,   *)
(* pgt_prepare and pgt_refer do at each level: go from the table r.t to    *)
(* the one entry i points to, with a cleared page of the pool if there is  *)
(* none; no table if the pool is empty.                                    *)
At(m, t) == [m |-> m, t |-> <<t>>]

Enter(r, s, i) ==
    IF r.t = << >> THEN r
    ELSE LET t == r.t[1]
             e == r.m.mem[t][i]
         IN  IF e.kind # "none" THEN [r EXCEPT !.t = <<e.to>>]
             ELSE IF r.m.pool[s] = << >> THEN [r EXCEPT !.t = << >>]
             ELSE LET n == Head(r.m.pool[s])
                  IN  [m |-> [mem  |-> [r.m.mem EXCEPT ![n] = Empty, ![t][i] = Ptr(n)],
                              pool |-> [r.m.pool EXCEPT ![s] = Tail(@)]],
                       t |-> <<n>>]

EnterPdpt(m, s) == Enter(At(m, Cr3(s)), s, 0)
EnterPd(m, s, v) == Enter(EnterPdpt(m, s), s, Gib(v))

(* pgt_init: the PML4 is cleared and the other pages are pushed.           *)
PgtInit(m, s) ==
    [mem  |-> [m.mem EXCEPT ![Cr3(s)] = Empty],
     pool |-> [m.pool EXCEPT ![s] = [i \in 1 .. NTables(s) - 1 |-> <<s, NTables(s) + 1 - i>>]]]

(* pgt_map.                                                                *)
PgtMap(m, s, v, f, w, super) ==
    LET d == EnterPd(m, s, v)
        r == IF super THEN d ELSE Enter(d, s, Dir(v))
        i == IF super THEN Dir(v) ELSE Idx(v)
    IN  IF r.t = << >> \/ r.m.mem[r.t[1]][i].kind # "none"
        THEN [m |-> r.m, ok |-> FALSE]
        ELSE [m |-> [r.m EXCEPT !.mem[r.t[1]][i] = Leaf(f, w, s # Kernel)], ok |-> TRUE]

(* The table below entry i of table t, if there is one.                    *)
Below(m, t, i) == IF t = << >> \/ m.mem[t[1]][i].kind = "none" THEN << >> ELSE <<m.mem[t[1]][i].to>>

PdOf(m, s, v) == Below(m, Below(m, <<Cr3(s)>>, 0), Gib(v))

PgtUnmapKeepingEntry(m, s, v, super) ==
    LET d == PdOf(m, s, v)
    IN  IF d = << >> \/ m.mem[d[1]][Dir(v)].kind = "none" THEN m
        ELSE IF super
             THEN IF m.mem[d[1]][Dir(v)].kind # "page" THEN m ELSE [m EXCEPT !.mem[d[1]][Dir(v)] = None]
        ELSE LET t == m.mem[d[1]][Dir(v)].to
                 n == [m EXCEPT !.mem[t][Idx(v)] = None]
             IN  IF \E i \in Slots : n.mem[t][i].kind # "none" THEN n
                 ELSE [n EXCEPT !.pool[s] = <<t>> \o @]

(* pgt_unmap: an empty page table goes back to the pool, a page directory  *)
(* stays.                                                                  *)
PgtUnmap(m, s, v, super) ==
    LET d == PdOf(m, s, v)
    IN  IF d = << >> \/ m.mem[d[1]][Dir(v)].kind = "none" THEN m
        ELSE IF super
             THEN IF m.mem[d[1]][Dir(v)].kind # "page" THEN m ELSE [m EXCEPT !.mem[d[1]][Dir(v)] = None]
        ELSE LET t == m.mem[d[1]][Dir(v)].to
                 n == [m EXCEPT !.mem[t][Idx(v)] = None]
             IN  IF \E i \in Slots : n.mem[t][i].kind # "none" THEN n
                 ELSE [n EXCEPT !.pool[s] = <<t>> \o @, !.mem[d[1]][Dir(v)] = None]

-----------------------------------------------------------------------------
(* The page_t p = [space, at, frame, order, rw] in pages or superpages.    *)
IsSuper(p) == p.order >= SuperOrder
Step(p)    == IF IsSuper(p) THEN PtFan ELSE 1
Count(p)   == Size[IF IsSuper(p) THEN p.order - SuperOrder ELSE p.order]
Span(p)    == p.at .. p.at + Size[p.order] - 1

(* The first n pages or superpages of p are unmapped, by arch_memory_unmap *)
(* or the error path of arch_memory_map, which goes from the last to the   *)
(* first.  The order makes no difference: a page_t is within one table.    *)
Unmapped(m, p, n) ==
    LET go[i \in 0 .. n] ==
            IF i = 0 THEN m
            ELSE PgtUnmap(go[i - 1], p.space, p.at + Step(p) * (n - i), IsSuper(p))
    IN  go[n]

(* The loop of arch_memory_map: n is the number of pages mapped when it    *)
(* ends.                                                                   *)
MapLoop(m, p) ==
    LET go[i \in 0 .. Count(p)] ==
            IF i = 0 THEN [m |-> m, ok |-> TRUE, n |-> 0]
            ELSE LET r == go[i - 1]
                     x == PgtMap(r.m, p.space, p.at + Step(p) * (i - 1),
                                 p.frame + Step(p) * (i - 1), p.rw, IsSuper(p))
                 IN  IF ~r.ok THEN r
                     ELSE [m |-> x.m, ok |-> x.ok, n |-> IF x.ok THEN i ELSE r.n]
    IN  go[Count(p)]

ArchMapPartial(m, p) == MapLoop(m, p)

(* arch_memory_map.                                                        *)
ArchMap(m, p) ==
    LET r == MapLoop(m, p)
    IN  [r EXCEPT !.m = IF r.ok THEN @ ELSE Unmapped(@, p, r.n)]

ReferFirst(r, s, g) ==
    LET k == PdOf(r.m, Kernel, GibPages)
        d == EnterPdpt(r.m, s)
    IN  [m |-> [d.m EXCEPT !.mem[d.t[1]][g] = Ptr(k[1])], ok |-> r.ok]

(* pgt_refer: the PDPT of s gets the page directory of the kernel.         *)
Refer(r, s, g) ==
    LET k == PdOf(r.m, Kernel, g * GibPages)
        d == EnterPdpt(r.m, s)
    IN  IF ~r.ok \/ k = << >> THEN [r EXCEPT !.ok = FALSE]
        ELSE IF d.t = << >> \/ d.m.mem[d.t[1]][g].kind # "none"
        THEN [m |-> d.m, ok |-> FALSE]
        ELSE [m |-> [d.m EXCEPT !.mem[d.t[1]][g] = Ptr(k[1])], ok |-> TRUE]

(* virt_memory_new with arch_memory_refer: all blocks of the kernel.       *)
ReferAll(m, s) ==
    LET go[g \in Gibs] == IF g = 0 THEN [m |-> PgtInit(m, s), ok |-> TRUE] ELSE Refer(go[g - 1], s, g)
    IN  go[1 + LinearGibs]

(* arch_memory_prepare: the same address is prepared for every GiB of the  *)
(* block, so only its first gets a page directory here.                    *)
Prepare(m, s, v) == EnterPd(m, s, v).m

-----------------------------------------------------------------------------
(* The first entry of a process is its program, which is mapped without    *)
(* MEMORY_PGF_RW (_alloc_vmem); all others are writable.                   *)
PageT(s, v, f, o) ==
    [space |-> s, at |-> v, frame |-> f, order |-> o, rw |-> s = Kernel \/ v >= PtFan]

(* What _init_kernel_pgt wires: the first superpage of the kernel block    *)
(* and the whole linear map, in superpages, whose page directories after   *)
(* the first come with its pages.  The region of the APIC is left out.     *)
WiredLow == PageT(Kernel, GibPages, 0, SuperOrder)
WiredLinear(i) == PageT(Kernel, Linear + i * PtFan, i * PtFan, SuperOrder)

Boot ==
    LET m0 == PgtInit([mem |-> [t \in Tables |-> Empty], pool |-> [s \in Spaces |-> << >>]], Kernel)
        m1 == ArchMap(Prepare(m0, Kernel, GibPages), WiredLow).m
        m2 == Prepare(m1, Kernel, Linear)
        n  == LinearGibs * PdFan
        go[i \in 0 .. n] == IF i = 0 THEN m2 ELSE ArchMap(go[i - 1], WiredLinear(i - 1)).m
    IN  go[n]

Init ==
    /\ mem = Boot.mem /\ pool = Boot.pool
    /\ live = {} /\ pages = {}
    /\ cr3 = Kernel /\ tlb = {}

M == [mem |-> mem, pool |-> pool]
Becomes(m) == mem' = m.mem /\ pool' = m.pool

(* arch_memory_new, and the block that proc_new and _block_fork add to the *)
(* new space (virt_memory_block_add, pgt_prepare).                         *)
New(s) ==
    LET r == ReferAll(M, s)
    IN  /\ s \notin live /\ r.ok
        /\ Becomes(Prepare(r.m, s, 0))
        /\ live' = live \cup {s}
        /\ UNCHANGED <<pages, cr3, tlb>>

(* INVLPG for the first n pages or superpages of p, if their page table is *)
(* the one in CR3.                                                         *)
InvalidateNever(p, n) == tlb

Invalidate(p, n) ==
    IF cr3 = p.space THEN {x \in tlb : x.page \notin p.at .. p.at + Step(p) * n - 1} ELSE tlb

(* A superpage is aligned and inside one entry of virtual memory (_order), *)
(* so pages of other entries are not in its place.                         *)
SameKind(p) ==
    \A q \in pages \cup {WiredLow} :
        q.space = p.space /\ IsSuper(q) # IsSuper(p) =>
            \A v \in Span(p), w \in Span(q) : v \div PtFan # w \div PtFan

Block(s) == IF s = Kernel THEN KernelBlock ELSE OwnPages

(* A page_t is mapped by memory.c (ifs.map in _alloc_pages,                *)
(* _alloc_pages_block, virt_memory_wire).                                  *)
MapPage(p) ==
    LET r == ArchMap(M, p)
    IN  /\ p.space \in live \cup {Kernel} /\ Span(p) \subseteq Block(p.space)
        /\ SameKind(p) /\ Cardinality(pages) < MaxPages
        /\ Becomes(r.m)
        /\ pages' = IF r.ok THEN pages \cup {p} ELSE pages
        /\ tlb' = Invalidate(p, r.n)
        /\ UNCHANGED <<live, cr3>>

(* A page_t is unmapped: _release_entry, for the memory of a process, and  *)
(* the error paths of the allocations, for pages that nobody has used yet; *)
(* those of the kernel are unmapped there only.                            *)
UnmapPage(p) ==
    /\ p \in pages
    /\ p.space = Kernel => \A x \in tlb : x.page \notin Span(p)
    /\ Becomes(Unmapped(M, p, Count(p)))
    /\ pages' = pages \ {p}
    /\ tlb' = Invalidate(p, Count(p))
    /\ UNCHANGED <<live, cr3>>

(* pgt_set_cr3 (proc_use), and the loads of CR3 when a task is restarted;  *)
(* idle tasks run in the space of the kernel.  No entry is global.         *)
SetCr3(s) ==
    /\ s \in live \cup {Kernel}
    /\ cr3' = s /\ tlb' = {}
    /\ UNCHANGED <<mem, pool, live, pages>>

(* The page walk of the CPU.                                               *)
Walk(s, v) ==
    LET d == PdOf(M, s, v)
        e == IF d = << >> THEN None ELSE mem[d[1]][Dir(v)]
    IN  IF e.kind = "page" THEN Leaf(e.to + Idx(v), e.rw, e.user)
        ELSE IF e.kind = "none" THEN None
        ELSE mem[e.to][Idx(v)]

(* An access by the program or the kernel: the CPU caches the translation. *)
Access(v) ==
    /\ Walk(cr3, v).kind = "page" /\ Cardinality(tlb) < MaxTlb
    /\ tlb' = tlb \cup {[page |-> v, leaf |-> Walk(cr3, v)]}
    /\ UNCHANGED <<mem, pool, live, pages, cr3>>

Next ==
    \/ \E s \in Procs : New(s)
    \/ \E s \in Spaces : SetCr3(s)
    \/ \E s \in Spaces, o \in Orders : \E v \in Block(s) :
          v % Size[o] = 0 /\ MapPage(PageT(s, v, 0, o))
    \/ \E p \in pages : UnmapPage(p)
    \/ \E v \in OwnPages \cup SharedPages : Access(v)

Spec == Init /\ [][Next]_vars

-----------------------------------------------------------------------------
(* Tables reachable from the PML4 of s through its own entries: the ones a *)
(* process refers to are the kernel's.                                     *)
Targets(t) == {mem[t][i].to : i \in {j \in Slots : mem[t][j].kind = "table"}}
Reach(s) ==
    LET pdpt == Targets(Cr3(s))
        pd   == UNION {Targets(t) : t \in pdpt}
    IN  {Cr3(s)} \cup pdpt \cup pd \cup UNION {Targets(t) : t \in pd}

(* Every page given to a page table is in its pool or one table of its     *)
(* tree, never both, and no entry of the tree points into the pool of      *)
(* another space: pgt_pop and pgt_push lose and duplicate none, whatever   *)
(* fails on the way.                                                       *)
TablesConserved ==
    \A s \in live \cup {Kernel} :
        LET free == {pool[s][i] : i \in DOMAIN pool[s]}
        IN  /\ Cardinality(free) = Len(pool[s])
            /\ free \cap Reach(s) = {}
            /\ TablesOf(s) = free \cup (Reach(s) \cap TablesOf(s))
            /\ s # Kernel => Reach(s) \ TablesOf(s) \subseteq Reach(Kernel)

(* The kernel sees its memory at the same place in every process: what is  *)
(* mapped in the kernel after a process was made is mapped in the process, *)
(* because pgt_refer shares page directories and pgt_unmap never frees     *)
(* one.                                                                    *)
KernelShared == \A s \in live, v \in SharedPages : Walk(s, v) = Walk(Kernel, v)

(* The CPU never uses a translation that the tables of the current space   *)
(* do not hold, although pgt_unmap invalidates only if its page table is   *)
(* the one in CR3.                                                         *)
TlbCoherent == \A x \in tlb : Walk(cr3, x.page) = x.leaf

(* The tables hold what the page_t say and nothing else: every page of a   *)
(* page_t that was mapped has its frame and its write permission, open to  *)
(* programs in the memory of a process only, and no other page is present. *)
(* A failure of arch_memory_map inside a page_t leaves nothing behind.     *)
Wired == {WiredLow} \cup {WiredLinear(i) : i \in 0 .. LinearGibs * PdFan - 1}
Expected(s, v) ==
    IF \E p \in pages \cup Wired : p.space = s /\ v \in Span(p)
    THEN LET p == CHOOSE q \in pages \cup Wired : q.space = s /\ v \in Span(q)
         IN  Leaf(p.frame + (v - p.at), p.rw, s # Kernel)
    ELSE None
TablesMatchPages ==
    /\ \A v \in SharedPages : Walk(Kernel, v) = Expected(Kernel, v)
    /\ \A s \in live, v \in OwnPages : Walk(s, v) = Expected(s, v)
=============================================================================
