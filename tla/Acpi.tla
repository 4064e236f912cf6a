-------------------------------- MODULE Acpi --------------------------------
(***************************************************************************)
(* The ACPI parser (acpi.c) as a function of what the firmware left in     *)
(* memory: acpi_load looks for the root pointer in the extended BIOS data  *)
(* area and then in the BIOS area, and walks the tables the root names.    *)
(* It runs once, before there is any concurrency.                          *)
(*                                                                         *)
(* An area is the sequence of places where a root pointer may be:          *)
(*   [ok |-> checksum and signature are right,                             *)
(*    signed |-> the RSDT or XSDT its revision selects has its signature,  *)
(*    tables |-> the tables that one lists]                                *)
(* and a table is a record by its signature sig.  The entries of an APIC   *)
(* or SRAT table have a type and a size, as the table has a length; no     *)
(* size is 0, which would hold the walk for ever.                          *)
(***************************************************************************)
EXTENDS Naturals, Sequences, SequencesExt

CONSTANT MaxRegions   \* MAX_MEMORY_REGIONS

ASSUME AcpiAssumption == MaxRegions \in Nat \ {0}

LocalApic == 0   \* entry types of an APIC table; an SRAT has 0 and 1 too
IoApic == 1
SratMemory == 1

(* The formats, as far as the parser looks at them.  An SRAT entry is that *)
(* of a processor or that of a range of memory.                            *)
ApicTables == [sig : {"APIC"}, length : Nat,
               entries : Seq([type : {LocalApic}, size : Nat \ {0}]
                             \cup [type : {IoApic}, size : Nat \ {0}, addr : Nat])]
FadtTables == [sig : {"FACP"}, revision : Nat, system_io : BOOLEAN, x_port : Nat,
               port : Nat, ext : BOOLEAN]
SratTables == [sig : {"SRAT"}, length : Nat,
               entries : Seq([type : {LocalApic}, size : Nat \ {0}, id : Nat, domain : Nat]
                             \cup [type : {SratMemory}, size : Nat \ {0}, enabled : BOOLEAN,
                                   region : [base : Nat, next : Nat, domain : Nat]])]
OtherTables == [sig : {"DSDT"}]
Rsdps == [ok : BOOLEAN, signed : BOOLEAN,
          tables : Seq(ApicTables \cup FadtTables \cup SratTables \cup OtherTables)]

(* acpi_t after kmemset; the PM1 control blocks are read like the timer.   *)
Zeroed == [ioapic_base |-> 0, pm_tmr_port |-> 0, pm_tmr_ext |-> FALSE,
           lapic_domain |-> {}, memory_domain |-> << >>]

(* The walk of a table's entries, up to its length: the ones it visits,    *)
(* and whether it ends at one that reaches beyond the table.               *)
Walk(table) ==
    LET Visit(w, e) ==
            IF w.over \/ w.len >= table.length THEN w
            ELSE IF w.len + e.size > table.length THEN [w EXCEPT !.over = TRUE]
            ELSE [w EXCEPT !.visited = Append(@, e), !.len = @ + e.size]
    IN  FoldLeft(Visit, [visited |-> << >>, len |-> 0, over |-> FALSE], table.entries)

(* _parse_apic: the first I/O APIC is used; an oversized entry is an error.*)
TakeApic(acpi, e) ==
    IF e.type = IoApic /\ acpi.ioapic_base = 0 THEN [acpi EXCEPT !.ioapic_base = e.addr]
    ELSE acpi

ParseApic(acpi, t) ==
    [acpi |-> FoldLeft(TakeApic, acpi, Walk(t).visited), failed |-> Walk(t).over]

(* _parse_fadt                                                             *)
ParseFadt(acpi, t) ==
    LET port == IF t.revision < 3 THEN t.port
                ELSE IF ~t.system_io THEN acpi.pm_tmr_port
                ELSE IF t.x_port # 0 THEN t.x_port
                ELSE t.port
    IN  [acpi |-> [acpi EXCEPT !.pm_tmr_port = port, !.pm_tmr_ext = t.ext],
         failed |-> FALSE]

(* _parse_srat: the domains of CPUs and of enabled memory, while there is  *)
(* room; an oversized entry ends the walk without an error.                *)
TakeSratDisabledToo(acpi, e) ==
    IF e.type = LocalApic
    THEN [acpi EXCEPT !.lapic_domain = {d \in @ : d[1] # e.id} \cup {<<e.id, e.domain>>}]
    ELSE IF e.type = SratMemory /\ Len(acpi.memory_domain) < MaxRegions
    THEN [acpi EXCEPT !.memory_domain = Append(@, e.region)]
    ELSE acpi
TakeSrat(acpi, e) ==
    IF e.type = LocalApic
    THEN [acpi EXCEPT !.lapic_domain = {d \in @ : d[1] # e.id} \cup {<<e.id, e.domain>>}]
    ELSE IF e.type = SratMemory /\ e.enabled /\ Len(acpi.memory_domain) < MaxRegions
    THEN [acpi EXCEPT !.memory_domain = Append(@, e.region)]
    ELSE acpi

ParseSrat(acpi, t) ==
    [acpi |-> FoldLeft(TakeSrat, acpi, Walk(t).visited), failed |-> FALSE]

(* _parse_rsdt: the tables in order, up to one that is malformed.          *)
ParseTable(acpi, t) ==
    CASE t.sig = "APIC" -> ParseApic(acpi, t)
      [] t.sig = "FACP" -> ParseFadt(acpi, t)
      [] t.sig = "SRAT" -> ParseSrat(acpi, t)
      [] OTHER -> [acpi |-> acpi, failed |-> FALSE]

ParseRsdt(acpi, rsdp) ==
    IF ~rsdp.signed THEN [acpi |-> acpi, failed |-> TRUE]
    ELSE FoldLeft(LAMBDA r, t : IF r.failed THEN r ELSE ParseTable(r.acpi, t),
                  [acpi |-> acpi, failed |-> FALSE], rsdp.tables)

(* _rsdp_search_range: the first place that looks like a root pointer.     *)
SearchRange(acpi, area) ==
    LET found == SelectSeq(area, LAMBDA rsdp : rsdp.ok)
    IN  IF found = << >> THEN [acpi |-> acpi, failed |-> TRUE]
        ELSE ParseRsdt(acpi, Head(found))

-----------------------------------------------------------------------------
(* What the tables of a root say, by definition rather than by parsing.    *)

(* The entries of a table before the first that reaches beyond its end.    *)
Inside(t) ==
    LET end(i) == FoldLeft(LAMBDA n, e : n + e.size, 0, SubSeq(t.entries, 1, i))
        whole  == {i \in 0 .. Len(t.entries) : \A j \in 1 .. i : end(j) <= t.length}
    IN  SubSeq(t.entries, 1, CHOOSE i \in whole : \A j \in whole : j <= i)

EntriesOf(rsdp, sig) ==
    FlattenSeq([i \in 1 .. Len(rsdp.tables) |->
                   IF rsdp.tables[i].sig = sig THEN Inside(rsdp.tables[i]) ELSE << >>])

MemoryOf(rsdp) ==
    LET on == SelectSeq(EntriesOf(rsdp, "SRAT"), LAMBDA e : e.type = SratMemory /\ e.enabled)
        cut == SubSeq(on, 1, IF Len(on) < MaxRegions THEN Len(on) ELSE MaxRegions)
    IN  [i \in 1 .. Len(cut) |-> cut[i].region]

IoApicOf(rsdp) ==
    LET io == SelectSeq(EntriesOf(rsdp, "APIC"), LAMBDA e : e.type = IoApic /\ e.addr # 0)
    IN  IF io = << >> THEN 0 ELSE io[1].addr

(* The last word of the affinity table on a processor.                     *)
DomainsOf(rsdp) ==
    LET cpu == SelectSeq(EntriesOf(rsdp, "SRAT"), LAMBDA e : e.type = LocalApic)
    IN  {<<cpu[i].id, cpu[i].domain>> : i \in {j \in DOMAIN cpu :
             \A k \in DOMAIN cpu : k > j => cpu[k].id # cpu[j].id}}
=============================================================================
