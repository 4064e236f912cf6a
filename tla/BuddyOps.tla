----------------------------- MODULE BuddyOps ------------------------------
(***************************************************************************)
(* The list operations of the buddy system (physmem.c): a sorted list of   *)
(* free blocks for every order, filled from a region of the memory map,    *)
(* split on allocation and merged on release.                              *)
(*                                                                         *)
(* Addresses are counted in units of which PageSize make a page.  The      *)
(* lists hold addresses of the linear map, whose base KERNEL_LMAP (4 GiB)  *)
(* is a multiple of the largest block, so alignment and order are those of *)
(* the physical addresses.                                                 *)
(***************************************************************************)
EXTENDS Integers, Sequences, FiniteSets

CONSTANTS MaxOrder,  \* MEMORY_PHYS_BUDDY_ORDER
          PageSize,  \* MEMORY_PAGESIZE, in address units
          Limit,     \* first address above the memory
          IntBits,   \* width of the C int that holds a number of blocks
          AddrBits   \* width of uintptr_t

(* The number of largest blocks in the address space has more bits than an *)
(* int (64-bit addresses, 32-bit ints, largest blocks of 1 GiB).           *)
ASSUME BuddyAssumption ==
    /\ MaxOrder \in Nat /\ PageSize \in Nat \ {0} /\ Limit \in Nat
    /\ IntBits \in Nat \ {0} /\ AddrBits \in Nat
    /\ Limit < 2 ^ (IntBits - 1)
    /\ PageSize * 2 ^ (MaxOrder + IntBits) <= 2 ^ AddrBits

Orders == 0 .. MaxOrder
Addrs == 0 .. Limit - 1

BlockSize(o) == 2 ^ o * PageSize

EmptyHeads == [o \in Orders |-> << >>]

(* A definition that precedes the one it varies (InsertUnmerged and the    *)
(* like) is a faulty variant used only to see a property fail.             *)

(* A new element goes before the first one with a higher address           *)
(* (_add_block, and the search of _insert_buddy).                          *)
SortedInsert(s, a) ==
    LET k == Cardinality({i \in DOMAIN s : \A j \in 1 .. i : s[j] <= a})
    IN  SubSeq(s, 1, k) \o <<a>> \o SubSeq(s, k + 1, Len(s))

AddBlock(h, o, a) == [h EXCEPT ![o] = SortedInsert(@, a)]

RECURSIVE AddBlocks(_, _, _, _)
AddBlocks(h, o, a, n) ==
    IF n <= 0 THEN h ELSE AddBlocks(AddBlock(h, o, a), o, a + BlockSize(o), n - 1)

(* The number of blocks between two addresses: an unsigned difference,     *)
(* shifted and narrowed to an int.                                         *)
BlockCount(first, last, o) ==
    LET wide   == ((last - first) % 2 ^ AddrBits) \div BlockSize(o)
        narrow == wide % 2 ^ IntBits
    IN  IF narrow >= 2 ^ (IntBits - 1) THEN narrow - 2 ^ IntBits ELSE narrow

AlignUp(a, o) == ((a + BlockSize(o) - 1) \div BlockSize(o)) * BlockSize(o)
AlignDown(a, o) == (a \div BlockSize(o)) * BlockSize(o)

(* _add_region_order: the ends that are not aligned go to lower orders.    *)
RECURSIVE AddRegionOrder(_, _, _, _)
AddRegionOrder(h, o, base, next) ==
    IF o < 0 THEN h
    ELSE
    LET lo == AlignUp(base, o)
        hi == AlignDown(next, o)
        h1 == IF base # lo
              THEN AddRegionOrder(h, o - 1, base, IF lo < next THEN lo ELSE next)
              ELSE h
        h2 == IF next # hi /\ hi >= base
              THEN AddRegionOrder(h1, o - 1, IF hi > base THEN hi ELSE base, next)
              ELSE h1
    IN  AddBlocks(h2, o, lo, BlockCount(lo, hi, o))

AddRegion(h, base, next) == AddRegionOrder(h, MaxOrder, base, next)

-----------------------------------------------------------------------------
SplitOnce(h, o) ==
    IF o >= MaxOrder \/ h[o] # << >> \/ h[o + 1] = << >> THEN h
    ELSE LET b == Head(h[o + 1])
         IN  [h EXCEPT ![o + 1] = Tail(@), ![o] = <<b, b + BlockSize(o)>>]

(* _split_buddy: fill an empty list from the next order.                   *)
RECURSIVE SplitBuddy(_, _)
SplitBuddy(h, o) ==
    IF o >= MaxOrder \/ h[o] # << >> THEN h
    ELSE LET u == SplitBuddy(h, o + 1)
         IN  IF u[o + 1] = << >> THEN u
             ELSE LET b == Head(u[o + 1])
                  IN  [u EXCEPT ![o + 1] = Tail(@), ![o] = <<b, b + BlockSize(o)>>]

InsertUnmerged(h, a, o) == IF o > MaxOrder THEN h ELSE AddBlock(h, o, a)

(* _merge_buddy, from place i of the list of order o, and _insert_buddy.   *)
(* After a pair is taken out the cursor also moves past the element that   *)
(* follows the pair.                                                       *)
RECURSIVE MergeBuddy(_, _, _), InsertBuddy(_, _, _)
MergeBuddy(h, o, i) ==
    IF o >= MaxOrder \/ i > Len(h[o]) THEN h
    ELSE LET s == h[o]
             b == s[i]
         IN  IF b % BlockSize(o + 1) = 0 /\ i < Len(s) /\ s[i + 1] = b + BlockSize(o)
             THEN MergeBuddy(
                    InsertBuddy([h EXCEPT ![o] = SubSeq(s, 1, i - 1)
                                                 \o SubSeq(s, i + 2, Len(s))],
                                b, o + 1),
                    o, i + 1)
             ELSE MergeBuddy(h, o, i + 1)
InsertBuddy(h, a, o) ==
    IF o > MaxOrder THEN h ELSE MergeBuddy(AddBlock(h, o, a), o, 1)

-----------------------------------------------------------------------------
(* The blocks in the lists of a zone, and the addresses they cover.        *)
BlocksIn(h) ==
    UNION {{[addr |-> h[o][i], order |-> o] : i \in DOMAIN h[o]} : o \in Orders}

Span(b) == b.addr .. b.addr + BlockSize(b.order) - 1

SpanOf(h) == UNION {Span(b) : b \in BlocksIn(h)}

(* The whole pages between two addresses.                                  *)
WholePages(base, next) ==
    {a \in Addrs : LET p == (a \div PageSize) * PageSize
                   IN  base <= p /\ p + PageSize <= next}
=============================================================================
