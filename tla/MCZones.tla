------------------------------ MODULE MCZones ------------------------------
(* Zones over 12 half pages: 2 for the boot loader, 2 of DMA memory, 2 of  *)
(* kernel memory and 6 of NUMA-aware memory.                               *)
EXTENDS Zones

Region(b, n, d) == [base |-> b, next |-> n, domain |-> d]
On(r)  == [type |-> SratMemory, size |-> 2, enabled |-> TRUE, region |-> r]
Off(r) == [type |-> SratMemory, size |-> 2, enabled |-> FALSE, region |-> r]
Cpu(i, d) == [type |-> LocalApic, size |-> 1, id |-> i, domain |-> d]
Srat(len, es) == [sig |-> "SRAT", length |-> len, entries |-> es]

Chip(a) == [type |-> IoApic, size |-> 1, addr |-> a]
Madt(len, es) == [sig |-> "APIC", length |-> len, entries |-> es]
Fadt(rev, io, x) ==
    [sig |-> "FACP", revision |-> rev, system_io |-> io, x_port |-> x, port |-> 1, ext |-> io]
Dsdt == [sig |-> "DSDT"]

Rsdp(ok, signed, ts) == [ok |-> ok, signed |-> signed, tables |-> ts]

Apics == Madt(3, <<[type |-> LocalApic, size |-> 1], Chip(1), Chip(2)>>)

(* Two domains that meet in the middle of a page; an entry is disabled.    *)
TwoDomains == Srat(9, <<Cpu(0, 1), Cpu(1, 1), Cpu(0, 0), On(Region(0, 9, 0)), Off(Region(0, 12, 2)),
                        On(Region(9, 12, 1))>>)
(* Three regions of two domains, a fourth over the limit of the parser.    *)
ThreeRegions == Srat(8, <<On(Region(0, 8, 0)), On(Region(8, 10, 1)),
                          On(Region(10, 12, 0)), On(Region(0, 12, 1))>>)
(* The last entry reaches beyond the end of the table.                     *)
Oversized == Srat(3, <<On(Region(0, 12, 0)), On(Region(6, 12, 1))>>)

(* Without a BIOS data area and affinity; found in the first area; only an *)
(* unsigned root in the first area; a malformed APIC table after the       *)
(* affinity table of the first area; no root at all.                       *)
Firmware ==
    {[ebda |-> << >>,
      bios |-> <<Rsdp(FALSE, TRUE, <<TwoDomains>>), Rsdp(TRUE, TRUE, <<Fadt(3, TRUE, 0), Apics, Oversized>>)>>],
     [ebda |-> <<Rsdp(TRUE, TRUE, <<Apics, Dsdt, Fadt(1, TRUE, 2), TwoDomains>>)>>, bios |-> << >>],
     [ebda |-> <<Rsdp(TRUE, FALSE, <<TwoDomains>>)>>,
      bios |-> <<Rsdp(TRUE, TRUE, <<ThreeRegions, Fadt(3, FALSE, 2)>>)>>],
     [ebda |-> <<Rsdp(TRUE, TRUE, <<Oversized, Madt(1, <<Chip(1), Chip(2)>>)>>)>>,
      bios |-> <<Rsdp(TRUE, TRUE, <<Oversized>>)>>],
     [ebda |-> <<Rsdp(FALSE, TRUE, << >>)>>, bios |-> << >>]}
=============================================================================
