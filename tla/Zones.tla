------------------------------- MODULE Zones -------------------------------
(***************************************************************************)
(* How the zones of physical memory are filled at boot from the memory map *)
(* of the firmware: phys_memory_init (physmem.c) for the DMA and kernel    *)
(* zones, acpi_load (acpi.c) for the memory domains, _init_numa_zones and  *)
(* _add_region_to_numa_zones (arch.c) for the NUMA-aware ones, in the      *)
(* order of bsp_start.  One action handles one entry of the map.           *)
(***************************************************************************)
EXTENDS BuddyOps, Acpi

CONSTANTS Floor,        \* end of the 2 MiB kept for boot loader and kernel
          KernelLB,     \* MEMORY_ZONE_KERNEL_LB
          NumaLB,       \* MEMORY_ZONE_NUMA_AWARE_LB
          MapLen,       \* entries of the memory map
          Roms,         \* what the firmware may have left in memory
          StalePages    \* addresses that old data of a page may look like

ASSUME ZonesAssumption ==
    /\ Floor \in Nat /\ Floor < KernelLB /\ KernelLB < NumaLB /\ NumaLB < Limit
    /\ MapLen \in Nat
    /\ \A r \in Roms : r \in [ebda : Seq(Rsdps), bios : Seq(Rsdps)]
    /\ StalePages \subseteq Addrs

Usable == 1   \* the entry type of memory that may be used

Entries == {e \in [base : Addrs, next : 1 .. Limit, type : {Usable, Usable + 1}] :
                e.base < e.next}

Apart(d, e) == d.next <= e.base \/ e.next <= d.base

(* The firmware reports no byte twice; bounds need not be page aligned.    *)
Maps == {m \in [1 .. MapLen -> Entries] :
             \A i, j \in 1 .. MapLen : i < j => Apart(m[i], m[j])}

VARIABLES map,      \* the memory map of the boot loader
          at,       \* index of the next entry to handle
          phase,    \* "core" zones, "bios" area, "table" of zones, "numa"
                    \* zones, "done" or "panic"
          dma, kernel,  \* heads of the core zones
          numa,     \* heads of the NUMA-aware zones, by domain
          rom,      \* the areas of the firmware; ebda is empty if there is none
          acpi,     \* the acpi_t
          leftover, \* history: a failed parse of the first area has left data
          table,    \* the block taken for the zone table, as a set of addresses
          clean     \* the memory of the zone table held zeros

vars == <<map, at, phase, dma, kernel, numa, rom, acpi, leftover, table, clean>>

regions == acpi.memory_domain

Domains == {0} \cup {regions[i].domain : i \in DOMAIN regions}

Init ==
    /\ map \in Maps
    /\ at = 1
    /\ phase = "core"
    /\ dma = EmptyHeads /\ kernel = EmptyHeads
    /\ rom \in Roms
    /\ acpi = Zeroed /\ leftover = FALSE
    /\ numa = << >>
    /\ table = {}
    /\ clean = TRUE

AtLeast(a, b) == IF a < b THEN b ELSE a
AtMost(a, b) == IF a > b THEN b ELSE a

CoreNextUncut(e) == AlignDown(AtLeast(e.next, Floor), 0)

(* The part of an entry that phys_memory_init considers.                   *)
CoreBase(e) == AlignUp(AtLeast(e.base, Floor), 0)
CoreNext(e) == AtMost(AlignDown(AtLeast(e.next, Floor), 0), NumaLB)

(* One turn of the loop of phys_memory_init.  kbase is computed and never  *)
(* used: an entry that reaches into both zones is added whole to both.     *)
(* The type of the entry is not looked at.                                 *)
CoreEntry ==
    LET base == CoreBase(map[at])
        next == CoreNext(map[at])
    IN  /\ phase = "core" /\ at <= MapLen
        /\ at' = at + 1
        /\ kernel' = IF base < NumaLB /\ next > KernelLB
                     THEN AddRegion(kernel, base, next) ELSE kernel
        /\ dma' = IF base < NumaLB /\ base < KernelLB
                  THEN AddRegion(dma, base, next) ELSE dma
        /\ UNCHANGED <<map, phase, numa, rom, acpi, leftover, table, clean>>

(* acpi_load.  The acpi_t is cleared once; what a failed parse of the first *)
(* area put into it is still there when the second is parsed.              *)
LoadEbda ==
    LET r == SearchRange(Zeroed, rom.ebda)
    IN  /\ phase = "core" /\ at > MapLen
        /\ acpi' = r.acpi
        /\ leftover' = (r.failed /\ r.acpi # Zeroed)
        /\ phase' = IF r.failed THEN "bios" ELSE "table"
        /\ UNCHANGED <<map, at, dma, kernel, numa, rom, table, clean>>

(* bsp_start panics if there is no root in the second area either.         *)
LoadBios ==
    LET r == SearchRange(acpi, rom.bios)
    IN  /\ phase = "bios"
        /\ acpi' = r.acpi
        /\ phase' = IF r.failed THEN "panic" ELSE "table"
        /\ UNCHANGED <<map, at, dma, kernel, numa, rom, leftover, table, clean>>

(* _init_numa_zones takes memory for the zone table from the kernel zone   *)
(* and bsp_start panics if there is none.  What bsp_start takes from the   *)
(* kernel zone before (page tables, the ACPI parser) are allocations like  *)
(* those of module Buddy and is left out.  A page holds the zones of up to *)
(* 25 domains, so the order asked for is 0.                                *)
NoTable ==
    /\ phase = "table"
    /\ SplitBuddy(kernel, 0)[0] = << >>
    /\ phase' = "panic"
    /\ UNCHANGED <<map, at, dma, kernel, numa, rom, acpi, leftover, table, clean>>

(* The call of kmemset clears sizeof(int) bytes of the table, which leaves *)
(* the list heads as they were: zeros, or old data taken for an address.   *)
NumaTable ==
    LET h == SplitBuddy(kernel, 0)
        zeros == [d \in Domains |-> EmptyHeads]
    IN  /\ phase = "table"
        /\ h[0] # << >>
        /\ phase' = "numa"
        /\ at' = 1
        /\ kernel' = [h EXCEPT ![0] = Tail(@)]
        /\ table' = Span([addr |-> Head(h[0]), order |-> 0])
        /\ \/ clean' = TRUE /\ numa' = zeros
           \/ /\ clean' = FALSE
              /\ \E a \in StalePages : numa' = [zeros EXCEPT ![0][0] = <<a>>]
        /\ UNCHANGED <<map, dma, rom, acpi, leftover>>

-----------------------------------------------------------------------------
(* _add_region_to_numa_zones: the part of [base, next) that lies in region *)
(* r goes to the domain of r; an entry that reaches beyond r at both ends  *)
(* adds nothing to it.                                                     *)
AddPartUncut(z, r, base, next) ==
    IF base >= r.base \/ next <= r.next
    THEN [z EXCEPT ![r.domain] = AddRegion(@, base, next)] ELSE z

AddPart(z, r, base, next) ==
    LET Put(lo, hi) == [z EXCEPT ![r.domain] = AddRegion(@, lo, hi)]
    IN  IF base >= r.base /\ next <= r.next THEN Put(base, next)
        ELSE IF base >= r.base THEN Put(base, r.next)
        ELSE IF next <= r.next THEN Put(r.base, next)
        ELSE z

RECURSIVE AddParts(_, _, _, _)
AddParts(z, i, base, next) ==
    IF i > Len(regions) THEN z
    ELSE AddParts(AddPart(z, regions[i], base, next), i + 1, base, next)

AddToZones(z, base, next) ==
    IF Len(regions) > 1 THEN AddParts(z, 1, base, next)
    ELSE [z EXCEPT ![0] = AddRegion(@, base, next)]

NumaNextInclusive(e) == AlignDown(AtLeast(e.next - 1, NumaLB), 0)

NumaBase(e) == AlignUp(AtLeast(e.base, NumaLB), 0)
NumaNext(e) == AlignDown(AtLeast(e.next, NumaLB), 0)

Takes(e) == NumaBase(e) # NumaNext(e) /\ e.type = Usable

(* One turn of the loop of _init_numa_zones.                               *)
NumaEntry ==
    LET e == map[at]
    IN  /\ phase = "numa" /\ at <= MapLen
        /\ at' = at + 1
        /\ numa' = IF Takes(e) THEN AddToZones(numa, NumaBase(e), NumaNext(e)) ELSE numa
        /\ UNCHANGED <<map, phase, dma, kernel, rom, acpi, leftover, table, clean>>

NumaReady ==
    /\ phase = "numa" /\ at > MapLen
    /\ phase' = "done"
    /\ UNCHANGED <<map, at, dma, kernel, numa, rom, acpi, leftover, table, clean>>

Next == CoreEntry \/ LoadEbda \/ LoadBios \/ NoTable \/ NumaTable \/ NumaEntry \/ NumaReady

Spec == Init /\ [][Next]_vars

-----------------------------------------------------------------------------
Handled == IF phase = "core" THEN {map[i] : i \in 1 .. at - 1} ELSE {map[i] : i \in 1 .. MapLen}

(* No address is covered by two blocks of the lists h.                     *)
NoOverlap(h) ==
    /\ \A b, c \in BlocksIn(h) : b # c => Span(b) \cap Span(c) = {}
    /\ \A o \in Orders : \A i, j \in DOMAIN h[o] : i # j => h[o][i] # h[o][j]

(* phys_memory_init leaves no page out and makes none up: every whole page *)
(* the firmware reports from the floor to KernelLB is in the DMA zone, and *)
(* every one from there to NumaLB in the kernel zone or taken for the zone *)
(* table; both hold only such pages, and each one once.  That the zones    *)
(* are apart is not part of this: an entry across KernelLB is in both.     *)
CoreZonesComplete ==
    LET pages == UNION {WholePages(AtLeast(e.base, Floor), AtMost(e.next, NumaLB)) :
                            e \in Handled}
    IN  /\ NoOverlap(dma) /\ NoOverlap(kernel)
        /\ SpanOf(kernel) \cap table = {}
        /\ SpanOf(dma) \cup SpanOf(kernel) \cup table \subseteq pages
        /\ {a \in pages : a < KernelLB} \subseteq SpanOf(dma)
        /\ {a \in pages : a >= KernelLB} \subseteq SpanOf(kernel) \cup table

(* The root the parser used: the first one of the area it stopped in.      *)
Root(area) == Head(SelectSeq(area, LAMBDA rsdp : rsdp.ok))
UsedRoot ==
    IF SearchRange(Zeroed, rom.ebda).failed THEN Root(rom.bios) ELSE Root(rom.ebda)

(* Once acpi_load has succeeded, and unless a failed parse of the first    *)
(* area left data behind, the memory domains are those of the enabled      *)
(* entries of the affinity table, in their order, up to the limit, the     *)
(* domain of a processor is the last one given for it, and the I/O APIC is *)
(* the first one of the APIC table.                                        *)
ParsedExact ==
    (phase \in {"table", "numa", "done"} /\ ~leftover) =>
        /\ acpi.memory_domain = MemoryOf(UsedRoot)
        /\ acpi.lapic_domain = DomainsOf(UsedRoot)
        /\ acpi.ioapic_base = IoApicOf(UsedRoot)

(* Once the NUMA-aware zones are filled, and if the memory of their table  *)
(* held zeros and no failed parse left domains behind, a zone holds only   *)
(* usable memory above NumaLB that lies in a region of its own domain, and *)
(* no address is in two blocks.                                            *)
NumaZonesSound ==
    (phase = "done" /\ clean /\ ~leftover) =>
        /\ \A d \in Domains : NoOverlap(numa[d])
        /\ \A c, d \in Domains : c # d => SpanOf(numa[c]) \cap SpanOf(numa[d]) = {}
        /\ \A d \in Domains : \A a \in SpanOf(numa[d]) :
               /\ a >= NumaLB
               /\ \E e \in Handled : e.type = Usable /\ e.base <= a /\ a < e.next
               /\ Len(regions) > 1 => \E i \in DOMAIN regions :
                      regions[i].domain = d /\ regions[i].base <= a /\ a < regions[i].next

UsablePages ==
    UNION {WholePages(AtLeast(e.base, NumaLB), e.next) : e \in {f \in Handled : f.type = Usable}}

(* Without an affinity table all the usable memory above NumaLB is in zone *)
(* 0 at the end of the boot.                                               *)
UmaComplete ==
    (phase = "done" /\ clean /\ Len(regions) <= 1) => SpanOf(numa[0]) = UsablePages
=============================================================================
