------------------------------- MODULE Buddy -------------------------------
(***************************************************************************)
(* Allocation and release of blocks of one memory zone (physmem.c).  Both  *)
(* run under phys_memory_t.lock (phys_mem_alloc, phys_mem_free), so each   *)
(* is one action.  AllocNoPop is a faulty variant of Alloc.                *)
(***************************************************************************)
EXTENDS BuddyOps

VARIABLES heads,   \* phys_memory_zone_t.heads: the free list of every order
          used,    \* blocks handed out and not released
          region   \* the region the zone was filled from

vars == <<heads, used, region>>

Blocks == {b \in [addr : Addrs, order : Orders] : Span(b) \subseteq Addrs}

(* A region of any size, empty and reversed ones included: phys_memory_init *)
(* rounds base up and next down, and may pass base > next.                 *)
Init ==
    /\ region \in [base : 0 .. Limit, next : 0 .. Limit]
    /\ heads = AddRegion(EmptyHeads, region.base, region.next)
    /\ used = {}

AllocNoPop(o) ==
    LET h == SplitBuddy(heads, o)
    IN  /\ h[o] # << >>
        /\ heads' = h
        /\ used' = used \cup {[addr |-> Head(h[o]), order |-> o]}
        /\ UNCHANGED region

(* phys_mem_buddy_alloc.                                                   *)
Alloc(o) ==
    LET h == SplitBuddy(heads, o)
    IN  /\ h[o] # << >>
        /\ heads' = [h EXCEPT ![o] = Tail(@)]
        /\ used' = used \cup {[addr |-> Head(h[o]), order |-> o]}
        /\ UNCHANGED region

(* An allocation that fails changes nothing: the split found no block to   *)
(* take.  An order above the largest one returns NULL before the split.    *)
AllocFails(o) == SplitBuddy(heads, o)[o] = << >> /\ UNCHANGED vars

FreePair(b) ==
    LET low  == (b.addr \div BlockSize(b.order + 1)) * BlockSize(b.order + 1)
        pair == {[addr |-> a, order |-> b.order] : a \in {low, low + BlockSize(b.order)}}
    IN  /\ IF b.order < MaxOrder /\ pair \subseteq used
           THEN heads' = InsertBuddy(heads, low, b.order + 1) /\ used' = used \ pair
           ELSE heads' = InsertBuddy(heads, b.addr, b.order) /\ used' = used \ {b}
        /\ UNCHANGED region

(* phys_mem_buddy_free, by the holder of the block.                        *)
Free(b) ==
    /\ heads' = InsertBuddy(heads, b.addr, b.order)
    /\ used' = used \ {b}
    /\ UNCHANGED region

Next ==
    \/ \E o \in Orders : Alloc(o) \/ AllocFails(o)
    \/ \E b \in used : Free(b)

Spec == Init /\ [][Next]_vars
-----------------------------------------------------------------------------
(* Properties.                                                             *)

FreeBlocks == BlocksIn(heads)

FreePages == SpanOf(heads)

(* No page is lost, invented or owned twice: free and used blocks together *)
(* tile the region the zone was given.                                     *)
PagesConserved ==
    /\ \A b, c \in FreeBlocks \cup used :
          b # c => Span(b) \cap Span(c) = {}
    /\ FreeBlocks \cap used = {}
    /\ UNION {Span(b) : b \in FreeBlocks \cup used} = WholePages(region.base, region.next)

(* Released blocks are merged as far as they can be: two buddies are never *)
(* both free below the largest order.  The search for a neighbour in       *)
(* _merge_buddy relies on lists that are sorted.                           *)
Coalesced ==
    /\ \A o \in Orders : \A i, j \in DOMAIN heads[o] : i < j => heads[o][i] < heads[o][j]
    /\ \A b \in FreeBlocks :
          b.order < MaxOrder /\ b.addr % BlockSize(b.order + 1) = 0
              => [b EXCEPT !.addr = @ + BlockSize(b.order)] \notin FreeBlocks

(* An allocation fails only if there is no free, aligned run of pages of   *)
(* its size: fragmentation across the lists never hides one.               *)
AllocComplete ==
    \A o \in Orders :
        (\E a \in Addrs : a % BlockSize(o) = 0 /\ a .. a + BlockSize(o) - 1 \subseteq FreePages)
            => SplitBuddy(heads, o)[o] # << >>

(* What the zone promises its callers (module PageAlloc).                  *)
Abstract == INSTANCE PageAlloc
            WITH Pages <- Addrs, free <- FreePages, held <- {Span(b) : b \in used}

ImplementsPageAlloc == Abstract!Spec
=============================================================================
