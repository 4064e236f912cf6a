-------------------------------- MODULE Boot --------------------------------
(***************************************************************************)
(* The boot of the kernel on the bootstrap processor (bsp_start in arch.c, *)
(* with the kernel_init it calls) as the sequence of its steps: what a     *)
(* step sets up, what must be set up for it, whether it can fail (the      *)
(* kernel then panics), and how long it waits.                             *)
(***************************************************************************)
EXTENDS Naturals, Sequences

CONSTANTS Wait10ms, Wait200us, Probe   \* waits, in microseconds

Delays == {Wait10ms, Wait200us, Probe}

ASSUME BootAssumption == Delays \subseteq Nat \ {0}

Sets(name, needs) == [name |-> name, needs |-> needs, fallible |-> FALSE, wait |-> 0]
Tries(name, needs) == [name |-> name, needs |-> needs, fallible |-> TRUE, wait |-> 0]
Waits(usec) == [name |-> "wait", needs |-> {"acpi"}, fallible |-> FALSE, wait |-> usec]

(* A new cache of the slab allocator.                                      *)
Cache(name) == Tries(name, {"slab"})

(* _init_temporary_pgt: the page table that processors start with; its     *)
(* result is ignored.                                                      *)
TemporaryPgt == <<Sets("boot_pgt", {})>>

(* kvar_init, then gdt_init, idt_init and tss_init, with their loads.      *)
KvarInit == <<Tries("kvar", {})>>
GdtInit == <<Sets("gdt", {"boot_pgt"})>>
IdtInit == <<Sets("idt", {"boot_pgt"})>>
TssInit == <<Sets("tss", {"gdt"})>>

(* The start of bsp_start, up to the core zones of physical memory.        *)
Core == KvarInit \o TemporaryPgt \o GdtInit \o IdtInit \o TssInit
        \o <<Sets("phys", {"kvar", "boot_pgt"})>>

(* memory_init, with the records of virtual memory (kmem_init).            *)
KmemInit == <<Tries("kmem_data", {"phys"})>>
MemoryInit == KmemInit \o <<Sets("mm", {"kmem_data", "pgt_pages"})>>

(* _init_kernel_pgt: tables, the kernel block with its wired parts and the *)
(* linear map.                                                             *)
KernelPgt == <<Tries("pgt_pages", {"phys"})>> \o MemoryInit
             \o <<Tries("kernel_block", {"mm"}),
                  Tries("wired_low", {"kernel_block"}),
                  Tries("wired_apic", {"kernel_block"}),
                  Tries("linear_block", {"mm"}),
                  Tries("linear_map", {"linear_block"}),
                  Sets("kmem", {"wired_low", "wired_apic", "linear_map"})>>

(* memory_slab_init; kmalloc_init, which makes a cache for every size.     *)
SlabInit == <<Tries("slab", {"kmem", "numa"})>>
KmallocInit == <<Cache("kmalloc")>>

(* task_mgr_init: caches and the process table.                            *)
TaskMgrInit == <<Cache("proc"), Cache("fildes"), Cache("stack"), Cache("task"), Cache("list"),
                 Tries("procs", {"kmem"})>>

(* vmem_callback_init: the caches of address spaces and tasks.             *)
VmemInit == <<Cache("vmem"), Cache("data"), Cache("pgt")>> \o TaskMgrInit

(* ACPI, the other zones, and the allocators.                              *)
Memory == <<Tries("acpi_pages", {"kmem"}),
            Tries("acpi", {"acpi_pages"}),
            Tries("numa", {"phys", "acpi"})>> \o SlabInit \o KmallocInit \o VmemInit

(* vconsole_init                                                           *)
VconsoleInit == <<Tries("console_dev", {"kmalloc"}), Tries("console", {"console_dev"})>>

(* _prepare_idle_task                                                      *)
IdleTask == <<Tries("idle", {"task", "stack", "kmem"})>>

(* _init_new, which finds the program (_initrd_find_file) and makes the    *)
(* init process (proc_new).                                                *)
FindInit == <<Tries("initrd", {"kmem"})>>
ProcNew == <<Tries("init_proc", {"proc", "vmem", "data", "pgt", "task", "stack", "phys"})>>
InitNew == FindInit \o ProcNew \o <<Sets("init", {"initrd", "init_proc", "procs"})>>

(* _prepare_multitasking                                                   *)
Multitasking == InitNew \o FindInit
                \o <<Cache("arch_task"), Sets("next_task", {"init", "idle"})>>

(* ioapic_init and ioapic_map_intr for the 16 interrupts.                  *)
IoapicInit == <<Sets("ioapic", {"acpi", "kmem"})>>

Tasks == VconsoleInit \o IdleTask \o Multitasking \o IoapicInit

(* vfs_init; vfs_register, which needs the cache of modules.               *)
VfsInit == <<Sets("modules", {}), Cache("vfs_module"), Cache("vfs_mount"), Cache("vnode"),
             Tries("rootfs", {"vnode"})>>
Register(name) == Tries(name, {"modules", "vfs_module"})

(* initramfs_init and the mount of it as the root: vfs_mount, which calls  *)
(* initramfs_mount.                                                        *)
InitramfsInit == <<Register("initramfs")>>
InitramfsMount == <<Tries("root_fs", {"kmalloc"})>>
MountRoot == <<Tries("root_mount", {"initramfs", "rootfs", "vfs_mount"})>> \o InitramfsMount
             \o <<Sets("root", {"root_mount", "root_fs"})>>

(* devfs_init                                                              *)
DevfsInit == <<Sets("devfs_entries", {}), Cache("devfs_entry"), Register("devfs")>>

(* kernel_init: the system calls, the timer events, the file systems.      *)
KernelInit == <<Tries("syscalls", {"kmem"}), Cache("event")>>
              \o VfsInit \o InitramfsInit \o MountRoot \o DevfsInit

(* syscall_init: the entry for system calls of this processor.             *)
SyscallInit == <<Tries("syscall_entry", {"syscalls"})>>

(* The run queue, system calls and the interrupt gates.                    *)
Entries == <<Sets("runqueue", {"kvar"})>> \o SyscallInit \o <<Sets("gates", {"idt"})>>

(* What the other processors find when they start.                         *)
Handover == <<Tries("apvar", {"kmem"}),
              Sets("arch_acpi", {"acpi"}),
              Tries("trampoline", {"kmem"})>>

(* INIT, two start-up messages and the waits between them.                 *)
StartAps == <<Sets("INIT", {"kmem"}), Waits(Wait10ms),
              Sets("SIPI", {"kmem"}), Waits(Wait200us),
              Sets("SIPI", {"kmem"}), Waits(Wait200us)>>

(* The estimate of the bus frequency, the messages, and the timer          *)
(* (lapic_start_timer).                                                    *)
Finish == <<Sets("welcome", {"console"}), Waits(Probe),
            Sets("messages", {"console", "acpi"}), Sets("timer", {"gates", "next_task"})>>

BootsApsEarly ==
    Core \o KernelPgt \o Memory \o Tasks \o StartAps \o KernelInit \o Entries \o Handover \o Finish
BootSteps ==
    Core \o KernelPgt \o Memory \o Tasks \o KernelInit \o Entries \o Handover \o StartAps \o Finish

(* What a processor needs at each step of ap_entry32, ap_entry64 and       *)
(* ap_start, and the first program on the bootstrap processor.             *)
ApNeeds ==
    [started |-> {"trampoline", "boot_pgt"}, spin |-> {"boot_pgt"},
     shared |-> {"boot_pgt", "apvar"}, own |-> {"apvar", "kmem"}, start |-> {"gdt", "idt", "tss", "kmem"},
     probe |-> {"arch_acpi"}, alloc |-> {"task", "stack"}, idle |-> {"gates"}]
UserNeeds == {"next_task", "syscall_entry", "root", "devfs", "devfs_entries", "devfs_entry",
              "proc", "vmem", "pgt", "data", "task", "stack", "event", "timer"}
=============================================================================
