------------------------------ MODULE VMSpace ------------------------------
(***************************************************************************)
(* The address space of one block of virtual memory (memory.c, tree.c):    *)
(* allocated entries, free spaces, and the trees that hold them.           *)
(*                                                                         *)
(* btree_add and btree_delete call comp(n->data, *t): the second argument  *)
(* is the tree node, not its data, so the "start" that is compared is the  *)
(* node's left pointer and the "size" its right pointer.  NULL is below    *)
(* every start and size.  A pointer is above every size here: it is at     *)
(* least 0xc0000000, the process and the kernel block are 0x40000000 long, *)
(* and the block of the linear map never has a second free space.  Hence:  *)
(*  - the trees by address never get a left child: they are lists in the   *)
(*    order of insertion (sequences here), and btree_search, which         *)
(*    compares with the data, gives up at the first element above the      *)
(*    address it looks for;                                                *)
(*  - the tree by size goes right at a node without a right child and left *)
(*    otherwise; its pointers are modelled (root, left, right).            *)
(* Addresses and sizes are in pages.  An operation that fails for want of  *)
(* data structures or pages undoes its changes and is a stuttering step    *)
(* here; the one that does not, virt_memory_alloc_entry, is in ProcMem.    *)
(***************************************************************************)
EXTENDS Integers, Sequences, FiniteSets, SequencesExt

CONSTANTS FirstPage, LastPage,  \* first and last page of the block
          Super,        \* pages of a superpage
          MaxFrees,     \* bound: free spaces at a time
          MaxEntries,   \* bound: entries at a time
          Nil

ASSUME VMAssumption ==
    /\ FirstPage \in Nat \ {0} /\ LastPage \in Nat /\ FirstPage <= LastPage
    /\ Super \in Nat \ {0} /\ MaxFrees \in Nat \ {0, 1} /\ MaxEntries \in Nat
    /\ Nil \notin 1 .. MaxFrees

Ids == 1 .. MaxFrees

VARIABLES entries,  \* the entries, in the order of their tree
          atree,    \* ids of the free spaces, in the order of the tree by address
          stree,    \* [root, left, right]: the tree by size
          space,    \* start and size of a free space
          status,   \* "ok", or "panic" after a failed kassert
          split     \* history: an entry was placed inside a free space

vars == <<entries, atree, stree, space, status, split>>

NoChild == [i \in Ids |-> Nil]
NoRange == [start |-> 0, size |-> 0]

(* virt_memory_block_add: one free space, the whole block.                 *)
Init ==
    /\ entries = << >>
    /\ atree = <<1>>
    /\ stree = [root |-> 1, left |-> NoChild, right |-> NoChild]
    /\ space = [i \in Ids |-> IF i = 1 THEN [start |-> FirstPage, size |-> LastPage - FirstPage + 1]
                              ELSE NoRange]
    /\ status = "ok"
    /\ split = FALSE

End(r) == r.start + r.size
Covers(r, a) == r.start <= a /\ a < End(r)
Span(r) == r.start .. End(r) - 1

-----------------------------------------------------------------------------
(* Searches.  SearchList(s, a) is the index btree_search finds in a list   *)
(* of ranges with virt_memory_cond_fit, 0 if none.                         *)
RECURSIVE SearchFrom(_, _, _)
SearchFrom(s, a, i) ==
    IF i > Len(s) \/ a < s[i].start THEN 0
    ELSE IF Covers(s[i], a) THEN i ELSE SearchFrom(s, a, i + 1)

AddressOrder == [i \in DOMAIN atree |-> space[atree[i]]]

(* _find_free_entry and _find_entry.                                       *)
FreeAt(a) == LET i == SearchFrom(AddressOrder, a, 1) IN IF i = 0 THEN Nil ELSE atree[i]
EntryAt(a) == SearchFrom(entries, a, 1)

(* _find_neighbor_free_entry.                                              *)
RECURSIVE NeighborFrom(_, _)
NeighborFrom(e, i) ==
    IF i > Len(atree) THEN Nil
    ELSE LET f == space[atree[i]]
         IN  IF End(e) = f.start \/ e.start = End(f) THEN atree[i]
             ELSE IF e.start < f.start THEN Nil ELSE NeighborFrom(e, i + 1)

(* _search_fit_size: the last space on the path that is large enough.      *)
RECURSIVE FitFrom(_, _, _)
FitFrom(t, n, best) ==
    IF t = Nil THEN best
    ELSE IF n > space[t].size THEN FitFrom(stree.right[t], n, best)
    ELSE FitFrom(stree.left[t], n, t)

Fit(n) == FitFrom(stree.root, n, Nil)

-----------------------------------------------------------------------------
(* btree_add to the tree by size.                                          *)
AddAtLeft(tr, t, n) ==
    [tr EXCEPT !.left[t] = n, !.left[n] = Nil, !.right[n] = Nil]

RECURSIVE AddAt(_, _, _)
AddAt(tr, t, n) ==
    IF tr.right[t] = Nil THEN [tr EXCEPT !.right[t] = n, !.left[n] = Nil, !.right[n] = Nil]
    ELSE IF tr.left[t] = Nil THEN [tr EXCEPT !.left[t] = n, !.left[n] = Nil, !.right[n] = Nil]
    ELSE AddAt(tr, tr.left[t], n)

TreeAdd(tr, n) ==
    IF tr.root = Nil THEN [tr EXCEPT !.root = n, !.left[n] = Nil, !.right[n] = Nil]
    ELSE AddAt(tr, tr.root, n)

RECURSIVE Rightmost(_, _)
Rightmost(tr, t) == IF tr.right[t] = Nil THEN t ELSE Rightmost(tr, tr.right[t])

(* What btree_delete puts in the place of n.                               *)
JoinDropRight(tr, n) ==
    IF tr.left[n] # Nil THEN [tree |-> tr, top |-> tr.left[n]]
    ELSE [tree |-> tr, top |-> tr.right[n]]

Join(tr, n) ==
    IF tr.left[n] # Nil /\ tr.right[n] # Nil
    THEN [tree |-> [tr EXCEPT !.right[Rightmost(tr, tr.left[n])] = tr.right[n]],
          top  |-> tr.left[n]]
    ELSE [tree |-> tr, top |-> IF tr.left[n] # Nil THEN tr.left[n] ELSE tr.right[n]]

(* btree_delete from the tree by size: the descent goes left wherever      *)
(* there is a right child, so a node that is a right child is not found.   *)
(* The pointers of a node out of the tree are not read: they are cleared.  *)
RECURSIVE Spine(_, _)
Spine(tr, t) ==
    IF t = Nil THEN {}
    ELSE {t} \cup (IF tr.right[t] = Nil THEN {} ELSE Spine(tr, tr.left[t]))

TreeFinds(tr, n) == n \in Spine(tr, tr.root)

TreeDelete(tr, n) ==
    LET j == Join(tr, n)
        t == [j.tree EXCEPT !.left[n] = Nil, !.right[n] = Nil]
    IN  IF tr.root = n THEN [t EXCEPT !.root = j.top]
        ELSE LET up == CHOOSE u \in Spine(tr, tr.root) : tr.left[u] = n
             IN  [t EXCEPT !.left[up] = j.top]

-----------------------------------------------------------------------------
(* The free spaces of the block as a record, changed step by step.         *)
Frees == [atree |-> atree, stree |-> stree, space |-> space]

(* _free_add and _free_delete.                                             *)
FreeAdd(F, n, r) ==
    [atree |-> Append(F.atree, n), stree |-> TreeAdd(F.stree, n), space |-> [F.space EXCEPT ![n] = r]]

FreeDelete(F, n) ==
    [F EXCEPT !.atree = Remove(@, n), !.stree = TreeDelete(@, n), !.space[n] = NoRange]

Unused(F, n) == \A i \in DOMAIN F.atree : F.atree[i] # n
Fresh(F) == CHOOSE n \in Ids : Unused(F, n) /\ \A m \in Ids : m < n => ~Unused(F, m)

CarveKeepingHead(F, f, e) ==
    LET r  == F.space[f]
        G  == FreeDelete(F, f)
        lo == Fresh(G)
    IN  IF r.start = e.start /\ r.size = e.size THEN G
        ELSE FreeAdd(G, lo, [start |-> r.start, size |-> r.size - e.size])

(* The entry e is cut out of free space f.  A space that remains on both   *)
(* sides is split, and the lower part is given the size up to the end of   *)
(* the entry (f0->size = e->start + e->size - f->start).                   *)
Carve(F, f, e) ==
    LET r  == F.space[f]
        G  == FreeDelete(F, f)
        lo == Fresh(G)
        H  == FreeAdd(G, lo, [start |-> r.start, size |-> End(e) - r.start])
    IN  IF r.start = e.start /\ r.size = e.size THEN G
        ELSE IF r.start = e.start
             THEN FreeAdd(G, lo, [start |-> End(e), size |-> r.size - e.size])
        ELSE IF End(r) = End(e)
             THEN FreeAdd(G, lo, [start |-> r.start, size |-> r.size - e.size])
        ELSE FreeAdd(H, Fresh(H), [start |-> End(e), size |-> End(r) - End(e)])

-----------------------------------------------------------------------------
(* kassert( fa != NULL && fs != NULL ) of _free_delete has failed: f has   *)
(* left the tree by address and is still in the one by size.               *)
Panic(f) ==
    /\ status' = "panic"
    /\ atree' = Remove(atree, f)
    /\ UNCHANGED <<stree, space>>

(* What an allocation does once free space f and entry e are settled: the  *)
(* entry is added, then f is replaced by what remains of it.               *)
Place(f, e) ==
    /\ Len(atree) < MaxFrees /\ Len(entries) < MaxEntries
    /\ entries' = Append(entries, e)
    /\ split' = (split \/ (e.start # space[f].start /\ End(e) # End(space[f])))
    /\ IF TreeFinds(stree, f)
       THEN LET F == Carve(Frees, f, e)
            IN  /\ atree' = F.atree /\ stree' = F.stree /\ space' = F.space
                /\ UNCHANGED status
       ELSE Panic(f)

AlignUp(a) == ((a + Super - 1) \div Super) * Super

(* n pages from the space _search_fit_size finds; a superpage or more is   *)
(* aligned.                                                                *)
AllocFit(n) ==
    LET large == n >= Super
        f     == Fit(IF large THEN n + Super ELSE n)
    IN  /\ status = "ok" /\ f # Nil
        /\ Place(f, [start |-> IF large THEN AlignUp(space[f].start) ELSE space[f].start,
                     size  |-> n])

(* memory_alloc_pages, virt_memory_alloc_pages (_alloc_pages_block) and    *)
(* virt_memory_wire2 (_alloc_virt_pages_wire) differ in the frames only.   *)
MemoryAllocPages(n) == AllocFit(n)
VirtMemoryWire2(n) == AllocFit(n)

(* n pages at address a.                                                   *)
AllocAt(a, n) ==
    LET f == FreeAt(a)
    IN  /\ status = "ok" /\ f # Nil
        /\ a + n <= End(space[f])
        /\ Place(f, [start |-> a, size |-> n])

(* The allocations at an address differ in the frames and in the page_t    *)
(* the range is made of.                                                   *)
VirtMemoryAllocEntry(a, n) == AllocAt(a, n)
VirtMemoryWire(a, n) == AllocAt(a, n)
VirtMemoryAllocPagesAddr(a, n) == AllocAt(a, n)

(* _entry_free: the range of the entry at a goes back, joined to one       *)
(* neighbouring free space.                                                *)
Release(a) ==
    LET i == EntryAt(a)
        e == entries[i]
        n == NeighborFrom(e, 1)
        F == IF n = Nil THEN FreeAdd(Frees, Fresh(Frees), e)
             ELSE LET r == space[n]
                  IN  FreeAdd(FreeDelete(Frees, n), n,
                              [start |-> IF r.start = End(e) THEN e.start ELSE r.start,
                               size  |-> r.size + e.size])
    IN  /\ status = "ok" /\ i # 0 /\ e.start = a
        /\ n = Nil => Len(atree) < MaxFrees
        /\ entries' = RemoveAt(entries, i)
        /\ IF n = Nil \/ TreeFinds(stree, n)
           THEN /\ atree' = F.atree /\ stree' = F.stree /\ space' = F.space
                /\ UNCHANGED status
           ELSE Panic(n)
        /\ UNCHANGED split

MemoryFreePages(a) == Release(a)
VirtMemoryFreePages(a) == Release(a)

Sizes == 1 .. LastPage - FirstPage + 1

Next ==
    \/ \E n \in Sizes : MemoryAllocPages(n) \/ VirtMemoryWire2(n)
    \/ \E a \in FirstPage .. LastPage, n \in Sizes :
          VirtMemoryAllocEntry(a, n) \/ VirtMemoryWire(a, n) \/ VirtMemoryAllocPagesAddr(a, n)
    \/ \E a \in FirstPage .. LastPage : MemoryFreePages(a) \/ VirtMemoryFreePages(a)

Spec == Init /\ [][Next]_vars

-----------------------------------------------------------------------------
FreeSpaces == {atree[i] : i \in DOMAIN atree}

RECURSIVE Under(_)
Under(t) == IF t = Nil THEN {} ELSE {t} \cup Under(stree.left[t]) \cup Under(stree.right[t])

(* The two trees of free spaces hold the same spaces, each once, whatever  *)
(* was allocated, split, joined or released before (_free_add,             *)
(* _free_delete, btree_add, btree_delete), until a kassert fails.          *)
TreesAgree ==
    status = "ok" =>
        /\ Under(stree.root) = FreeSpaces
        /\ Cardinality(FreeSpaces) = Len(atree)

(* Entries and free spaces tile the block: every page of it is in exactly  *)
(* one entry or free space, so no two allocations share an address and no  *)
(* address is lost, as long as no entry is placed inside a free space      *)
(* (_alloc_pages_block, virt_memory_wire, virt_memory_alloc_entry).        *)
Tiling ==
    (status = "ok" /\ ~split) => \A p \in FirstPage .. LastPage :
        Cardinality({<<"entry", i>> : i \in {j \in DOMAIN entries : Covers(entries[j], p)}}
                    \cup {<<"free", f>> : f \in {g \in FreeSpaces : Covers(space[g], p)}}) = 1

(* With up to two free spaces a fit is found whenever one of them is large *)
(* enough, whatever the requests and releases were that led there and      *)
(* although their order, not the sizes, shaped the tree: the second space  *)
(* hangs to the right of the first, where _search_fit_size goes for more.  *)
(* With three it may miss the one on the left.                             *)
FitFindsOneOfTwo ==
    (status = "ok" /\ Len(atree) <= 2) =>
        \A n \in Sizes : (\E f \in FreeSpaces : space[f].size >= n) => Fit(n) # Nil
=============================================================================
