------------------------------ MODULE ProcMem ------------------------------
(***************************************************************************)
(* The memory of processes (proc.c, the fork part of memory.c,             *)
(* arch_memory_new): which physical frames back which region of which      *)
(* process, what they contain, and what is left behind when an allocation  *)
(* fails half way.  System calls run with interrupts off, so creation and  *)
(* fork are single steps; what varies is where they fail.                  *)
(*                                                                         *)
(* The entries of a process are in the order of their tree, the order of   *)
(* insertion (see VMSpace): program, stack, device mappings.  A frame is   *)
(* physical memory; Device stands for the registers or memory of a device. *)
(***************************************************************************)
EXTENDS Integers, Sequences, FiniteSets, FiniteSetsExt, SequencesExt

CONSTANTS NFrames,     \* frames for the pages of processes
          NTables,     \* blocks for the page tables of a process
          NProcs,      \* PROC_NR
          ProgPages, StackPages, MmapPages,
          MaxEntries,  \* bound: entries of a process
          Values,      \* contents of a page
          Device, Nil

ASSUME ProcMemAssumption ==
    /\ NFrames \in Nat /\ NTables \in Nat /\ NProcs \in Nat \ {0}
    /\ ProgPages \in Nat \ {0} /\ StackPages \in Nat \ {0} /\ MmapPages \in Nat \ {0}
    /\ MaxEntries \in Nat \ {0, 1}
    /\ Device \notin 1 .. NFrames /\ Values # {}

Frames == 1 .. NFrames
Pids == 1 .. NProcs

VARIABLES free,     \* frames the physical allocator has
          tables,   \* blocks of page-table pages it has
          procs,    \* the process table: Nil or the entries of the process
          content,  \* of every frame
          parent,   \* pid of the parent
          lastFork, \* what the last sys_fork returned: the child's pid, -1, or Nil
          stopped   \* processes left in panic's loop after a NULL pointer

vars == <<free, tables, procs, content, parent, lastFork, stopped>>

(* An entry: its region, its size and the frames of its pages.             *)
Region(name, size) == [region |-> name, size |-> size]
Backed(e, fs) == [region |-> e.region, size |-> e.size, frames |-> fs]

(* The frames phys_mem_alloc hands out for n pages, lowest first.          *)
TakeN(fs, n) ==
    [i \in 1 .. Min({n, Cardinality(fs)}) |->
        CHOOSE f \in fs : Cardinality({g \in fs : g < f}) = i - 1]

-----------------------------------------------------------------------------
(* virt_memory_alloc_entry on a space with the entries es and the free     *)
(* frames fs, with memory for the page_t and the page tables of `most`     *)
(* pages; None: not even for the entry itself, and nothing happens.  When  *)
(* a page cannot be had, those got so far are unmapped but their frames    *)
(* are not freed, and the entry stays without pages.                       *)
None == -1

AllocEntryFreeing(es, fs, e, most) ==
    IF most = None THEN [ok |-> FALSE, es |-> es, fs |-> fs]
    ELSE LET got == TakeN(fs, Min({e.size, most}))
         IN  IF Len(got) < e.size
             THEN [ok |-> FALSE, es |-> Append(es, Backed(e, << >>)), fs |-> fs]
             ELSE [ok |-> TRUE, es |-> Append(es, Backed(e, got)), fs |-> fs]

AllocEntry(es, fs, e, most) ==
    IF most = None THEN [ok |-> FALSE, es |-> es, fs |-> fs]
    ELSE LET got == TakeN(fs, Min({e.size, most}))
         IN  [ok |-> Len(got) = e.size,
              es |-> Append(es, Backed(e, IF Len(got) = e.size THEN got ELSE << >>)),
              fs |-> fs \ Range(got)]

(* _entry_fork over the entries src[i], src[i + 1], ...: entry lack.at has *)
(* memory for lack.most pages only.  A failure at one entry ends the walk, *)
(* but only the call for the first entry hands it on: its callers test     *)
(* `ret < -1`.                                                             *)
Lacks == [at : 0 .. MaxEntries, most : None .. Max({ProgPages, StackPages, MmapPages}) - 1]

RECURSIVE EntryFork(_, _, _, _, _)
EntryFork(src, i, es, fs, lack) ==
    LET r == AllocEntry(es, fs, src[i], IF i = lack.at THEN lack.most ELSE src[i].size)
    IN  IF ~r.ok \/ i = Len(src) THEN [r EXCEPT !.ok = r.ok \/ i > 1]
        ELSE EntryFork(src, i + 1, r.es, r.fs, lack)

(* _copy_object: page j of entry i of the copy gets what page j of entry i *)
(* of the original holds; Slots(es, f) are the pages that frame f backs.   *)
Slots(es, f) == {x \in (DOMAIN es) \X Frames :
                    x[2] \in DOMAIN es[x[1]].frames /\ es[x[1]].frames[x[2]] = f}

CopyFirstEntry(cnt, dst, src) ==
    [f \in Frames |->
        LET from == {src[1].frames[x[2]] : x \in {y \in Slots(dst, f) : y[1] = 1}}
        IN  IF from = {} THEN cnt[f] ELSE cnt[CHOOSE g \in from : TRUE]]

CopyObject(cnt, dst, src) ==
    [f \in Frames |->
        LET from == {src[x[1]].frames[x[2]] : x \in
                        {y \in Slots(dst, f) : y[2] \in DOMAIN src[y[1]].frames}} \ {Device}
        IN  IF from = {} THEN cnt[f] ELSE cnt[CHOOSE g \in from : TRUE]]

-----------------------------------------------------------------------------
(* proc_new(1) at boot, from an allocator that has all the memory: the     *)
(* boot panics if this fails.                                              *)
InitEntries ==
    LET one == AllocEntry(<< >>, Frames, Region("program", ProgPages), ProgPages)
    IN  AllocEntry(one.es, one.fs, Region("stack", StackPages), StackPages)

Init ==
    /\ InitEntries.ok /\ NTables > 0
    /\ free = InitEntries.fs
    /\ tables = NTables - 1
    /\ procs = [p \in Pids |-> IF p = 1 THEN InitEntries.es ELSE Nil]
    /\ content \in [Frames -> Values]
    /\ parent = [p \in Pids |-> 0]
    /\ lastFork = Nil
    /\ stopped = {}

(* A process runs if its program and stack are there: a page fault is a    *)
(* panic (isr_page_fault).  panic ends in a loop of hlt with interrupts    *)
(* enabled, so the tick goes on to other processes.                        *)
Mapped(es, name) == \E i \in DOMAIN es : es[i].region = name /\ Len(es[i].frames) = es[i].size
Complete(es) == Mapped(es, "program") /\ Mapped(es, "stack")
Runs(p) == p \notin stopped /\ procs[p] # Nil /\ Complete(procs[p])

FreePids == {q \in Pids : procs[q] = Nil}

(* sys_fork_c and proc_fork fail before they have taken anything: no pid,  *)
(* no proc_t, or arch_memory_new fails at once.                            *)
ForkFailsEarly(p) ==
    /\ Runs(p)
    /\ lastFork' = -1
    /\ UNCHANGED <<free, tables, procs, content, parent, stopped>>

GetsTables(p) == Runs(p) /\ FreePids # {} /\ tables > 0 /\ tables' = tables - 1

(* arch_memory_new has its page-table pages but no pgt_t, or               *)
(* virt_memory_block_add fails: the pages are not given back.              *)
ForkLosesTables(p) ==
    /\ GetsTables(p)
    /\ lastFork' = -1
    /\ UNCHANGED <<free, procs, content, parent, stopped>>

(* virt_memory_fork takes the frames and, if it succeeds, copies.          *)
VirtMemoryFork(p, r) ==
    /\ GetsTables(p)
    /\ free' = r.fs
    /\ content' = IF r.ok THEN CopyObject(content, r.es, procs[p]) ELSE content

(* The first entry cannot be allocated and is not in the tree of the       *)
(* block, so _entry_free_all follows a NULL pointer; or all is copied and  *)
(* task_init clears the xregs that kmalloc did not give.                   *)
ForkFaults(p, lack) ==
    LET r == EntryFork(procs[p], 1, << >>, free, lack)
    IN  /\ VirtMemoryFork(p, r)
        /\ r.es = << >> \/ r.ok
        /\ stopped' = stopped \cup {p}
        /\ UNCHANGED <<procs, parent, lastFork>>

(* _block_fork fails at a page of the first entry, or succeeds and         *)
(* task_alloc fails: the frames are not given back.                        *)
ForkLosesFrames(p, lack) ==
    LET r == EntryFork(procs[p], 1, << >>, free, lack)
    IN  /\ VirtMemoryFork(p, r)
        /\ r.es # << >>
        /\ lastFork' = -1
        /\ UNCHANGED <<procs, parent, stopped>>

Fork(p, lack) ==
    LET r == EntryFork(procs[p], 1, << >>, free, lack)
        c == Min(FreePids)
    IN  /\ VirtMemoryFork(p, r)
        /\ r.ok
        /\ procs' = [procs EXCEPT ![c] = r.es]
        /\ parent' = [parent EXCEPT ![c] = p]
        /\ lastFork' = c
        /\ UNCHANGED stopped

(* _mmap of sysdriver.c: a device is wired into the space of a driver.     *)
Mmap(p) ==
    /\ Runs(p) /\ Len(procs[p]) < MaxEntries
    /\ procs' = [procs EXCEPT ![p] =
                    Append(@, Backed(Region("mmio", MmapPages), [i \in 1 .. MmapPages |-> Device]))]
    /\ UNCHANGED <<free, tables, content, parent, lastFork, stopped>>

(* A store to page j of entry i: the process writes to its stack, and the  *)
(* kernel, for it, also to the program, which is mapped read-only.         *)
Store(p, i, j, v) ==
    /\ Runs(p) /\ i \in DOMAIN procs[p] /\ j \in DOMAIN procs[p][i].frames
    /\ procs[p][i].frames[j] # Device
    /\ content' = [content EXCEPT ![procs[p][i].frames[j]] = v]
    /\ UNCHANGED <<free, tables, procs, parent, lastFork, stopped>>

Next == \E p \in Pids :
    \/ ForkFailsEarly(p)
    \/ ForkLosesTables(p)
    \/ \E lack \in Lacks : ForkFaults(p, lack) \/ ForkLosesFrames(p, lack) \/ Fork(p, lack)
    \/ Mmap(p)
    \/ \E i \in 1 .. MaxEntries, j \in Frames, v \in Values : Store(p, i, j, v)

Spec == Init /\ [][Next]_vars

-----------------------------------------------------------------------------
Live == Pids \ FreePids

Pages(p) == {<<p, i, j>> : i \in DOMAIN procs[p], j \in Frames}
AllPages == {x \in UNION {Pages(p) : p \in Live} : x[3] \in DOMAIN procs[x[1]][x[2]].frames}
FrameOf(x) == procs[x[1]][x[2]].frames[x[3]]

(* A frame backs one page of one process, and none while the allocator has *)
(* it: the memory of processes stays separate through any sequence of      *)
(* forks, failed ones included (virt_memory_alloc_entry, _entry_fork).     *)
FramesExclusive ==
    \A x \in AllPages : FrameOf(x) # Device =>
        /\ FrameOf(x) \notin free
        /\ \A y \in AllPages : FrameOf(y) = FrameOf(x) => y = x

(* A fork gives every page the child has the contents of the parent's page *)
(* at the same address, and changes no page of any other process           *)
(* (_copy_object).                                                         *)
ForkCopies ==
    [][\A c \in Pids : procs[c] = Nil /\ procs'[c] # Nil =>
        LET p == parent'[c]
        IN  /\ \A i \in DOMAIN procs'[c] : \A j \in DOMAIN procs'[c][i].frames :
                  j \in DOMAIN procs[p][i].frames /\ procs[p][i].frames[j] # Device =>
                      content'[procs'[c][i].frames[j]] = content[procs[p][i].frames[j]]
            /\ \A x \in AllPages : FrameOf(x) # Device =>
                  content'[FrameOf(x)] = content[FrameOf(x)]]_vars
=============================================================================
