-------------------------------- MODULE Smp --------------------------------
(***************************************************************************)
(* All processors from reset to their work: the bootstrap processor runs   *)
(* the steps of module Boot and then processes and ticks; the application  *)
(* processors run trampoline.S, ap_entry32.S, ap_entry64.S and ap_start    *)
(* (arch.c).  They meet at the lock of the boot stack, at the slab lock,   *)
(* and at the lock of physical memory; arch_memory_new takes memory        *)
(* without a lock, from a zone that nobody else uses after the boot.       *)
(*                                                                         *)
(* Allocation is modelled by contexts: the processors and, on the boot-    *)
(* strap processor, the tick handler.  A context has a list of operations  *)
(* to do, of which the first is under way.  A slab cache is the number of  *)
(* its free objects (module Slab has the lists), a zone a list of blocks   *)
(* of one size (module Buddy has the orders), and the pages of a new slab, *)
(* or those of a process, are one block.                                   *)
(***************************************************************************)
EXTENDS PmTimer, Boot

CONSTANTS Aps,            \* local APIC identifiers of other processors
          Machines,       \* the sets of them that a machine may have
          MaxProcessors,  \* MAX_PROCESSORS
          Tick,           \* the context of the tick handler
          NumaBlocks,     \* blocks of the NUMA-aware zone 0 after the boot
          KernelBlocks,   \* blocks of the kernel zone after the boot
          Spare,          \* caches with a free object when the boot is over
          ObjsPerSlab,    \* objects of a new slab
          MaxEvents       \* bound: sleeping processes

Bsp == 0

ASSUME SmpAssumption ==
    /\ Aps \subseteq Nat \ {Bsp}
    /\ Machines \subseteq SUBSET Aps
    /\ Cpus = Aps \cup {Bsp}
    /\ Tick \in Nat \ Cpus
    /\ MaxProcessors \in Nat \ {0}
    /\ NumaBlocks \in Nat /\ KernelBlocks \in Nat /\ MaxEvents \in Nat
    /\ ObjsPerSlab \in Nat \ {0}

VARIABLES step,    \* index of the next boot step of the bootstrap processor
          bsp,     \* "boot", "user" (programs run) or "panic"
          ready,   \* what the boot has set up
          present, \* the application processors of this machine
          ap,      \* by application processor: where it is
          aplock,  \* the word AP_SPIN_LOCK
          todo,    \* by context: the operations to do
          pc,      \* by context: where it is in the first of them
          slab,    \* the word slab->lock
          phys,    \* the word phys_memory_t.lock
          objs,    \* by cache: free objects
          free,    \* by zone: the list of free blocks
          seen,    \* by context: the list when it read the head
          mine,    \* the block of arch_memory_new, 0 if there is none
          out,     \* history: how often a block is handed out
          events   \* timer events in the list

bootVars == <<step, bsp, ready, present>>
apVars == <<ap, aplock>>
heapVars == <<todo, pc, slab, phys, objs, free, seen, mine, out, events>>
vars == <<timerVars, bootVars, apVars, heapVars>>

Contexts == Cpus \cup {Tick}
Caches == {"proc", "vmem", "pgt", "data", "task", "stack", "xregs", "event"}
Blocks == 1 .. NumaBlocks + KernelBlocks
Zones == {"numa", "kernel"}

Take(cache) == [op |-> "take", cache |-> cache]
Give(cache) == [op |-> "give", cache |-> cache]
TakePage == [op |-> "take", cache |-> "page"]    \* phys_mem_alloc
TakeBlock == [op |-> "take", cache |-> "block"]  \* phys_mem_buddy_alloc
GiveBlock == [op |-> "give", cache |-> "block"]  \* phys_mem_buddy_free
Ends(how) == [op |-> how, cache |-> "none"]

(* Nothing sets AP_SPIN_LOCK up before ap_entry32 uses it.  The word is in *)
(* the memory for the stack of the boot, 0x1f00 bytes below its top; that  *)
(* it is 0, as after a reset, is assumed.                                  *)
Init ==
    /\ TimerInit
    /\ step = 1 /\ bsp = "boot" /\ ready = {}
    /\ present \in Machines
    /\ ap = [a \in Aps |-> "reset"]
    /\ aplock = 0
    /\ todo = [c \in Contexts |-> << >>]
    /\ pc = [c \in Contexts |-> "idle"]
    /\ slab = 0 /\ phys = 0
    /\ objs = [k \in Caches |-> IF k \in Spare THEN 1 ELSE 0]
    /\ free = [z \in Zones |-> IF z = "numa" THEN [i \in 1 .. NumaBlocks |-> i]
                              ELSE [i \in 1 .. KernelBlocks |-> NumaBlocks + i]]
    /\ seen = [c \in Contexts |-> << >>]
    /\ mine = 0
    /\ out = [b \in Blocks |-> 0]
    /\ events = 0

-----------------------------------------------------------------------------
(* The bootstrap processor.  INIT, which is sent once, makes the others    *)
(* wait for a start-up message, which starts those that wait for one; a    *)
(* processor may miss it, and one that runs ignores it.                    *)

Now == BootSteps[step]

Signalled ==
    CASE Now.name = "INIT" ->
             {[a \in Aps |-> IF ap[a] = "reset" /\ a \in present THEN "wait" ELSE ap[a]]}
      [] Now.name = "SIPI" ->
             {[a \in Aps |-> IF ap[a] = "wait" /\ a \notin missed THEN "started" ELSE ap[a]]
                 : missed \in SUBSET Aps}
      [] OTHER -> {ap}

BootStep ==
    /\ bsp = "boot" /\ step <= Len(BootSteps) /\ Now.wait = 0
    /\ step' = step + 1
    /\ ready' = ready \cup {Now.name}
    /\ ap' \in Signalled
    /\ UNCHANGED <<timerVars, bsp, present, aplock, heapVars>>

BootFails ==
    /\ bsp = "boot" /\ step <= Len(BootSteps) /\ Now.fallible
    /\ bsp' = "panic"
    /\ UNCHANGED <<timerVars, step, ready, present, apVars, heapVars>>

BootWait ==
    /\ bsp = "boot" /\ step <= Len(BootSteps)
    /\ \E n \in Delays : Now.wait = n /\ SleepStart(Bsp, n)
    /\ UNCHANGED <<bootVars, apVars, heapVars>>

BootAwake ==
    /\ SleepEnd(Bsp)
    /\ step' = step + 1
    /\ UNCHANGED <<bsp, ready, present, apVars, heapVars>>

(* task_restart: the init process runs, with interrupts enabled.           *)
Restart ==
    /\ bsp = "boot" /\ step > Len(BootSteps)
    /\ bsp' = "user"
    /\ UNCHANGED <<timerVars, step, ready, present, apVars, heapVars>>

-----------------------------------------------------------------------------
(* An application processor up to ap_start.                                *)

Goto(a, from, to) == ap[a] = from /\ ap' = [ap EXCEPT ![a] = to]

Trampoline(a) ==
    /\ Goto(a, "started", "spin")
    /\ UNCHANGED <<timerVars, bootVars, aplock, heapVars>>

TakeStackUnlocked(a) ==
    /\ Goto(a, "spin", "shared")
    /\ aplock' = 1
    /\ UNCHANGED <<timerVars, bootVars, heapVars>>
TakeStack(a) ==
    /\ aplock = 0
    /\ Goto(a, "spin", "shared")
    /\ aplock' = 1
    /\ UNCHANGED <<timerVars, bootVars, heapVars>>

(* There are stacks for identifiers below MAX_PROCESSORS.                  *)
OwnStackAny(a) ==
    /\ Goto(a, "shared", "own")
    /\ UNCHANGED <<timerVars, bootVars, aplock, heapVars>>
OwnStack(a) ==
    /\ a < MaxProcessors
    /\ Goto(a, "shared", "own")
    /\ UNCHANGED <<timerVars, bootVars, aplock, heapVars>>

NoStack(a) ==
    /\ a >= MaxProcessors
    /\ Goto(a, "shared", "halted")
    /\ aplock' = 0
    /\ UNCHANGED <<timerVars, bootVars, heapVars>>

ReleaseStack(a) ==
    /\ Goto(a, "own", "start")
    /\ aplock' = 0
    /\ UNCHANGED <<timerVars, bootVars, heapVars>>

(* The top of the stack is (id + 1) pages above APVAR_SP.                  *)
StackPage(a) == (a + 1) - 1

(* ap_start: load the tables, then estimate the bus frequency.             *)
ApProbe(a) ==
    /\ Goto(a, "start", "probe")
    /\ SleepStart(a, Probe)
    /\ UNCHANGED <<bootVars, aplock, heapVars>>

(* _prepare_idle_task takes a task and a kernel stack.                     *)
ApAlloc(a) ==
    /\ Goto(a, "probe", "alloc")
    /\ SleepEnd(a)
    /\ todo' = [todo EXCEPT ![a] = <<Take("task"), Take("stack"), Ends("idle")>>]
    /\ UNCHANGED <<bootVars, aplock, pc, slab, phys, objs, free, seen, mine, out, events>>

ApEnds(a) ==
    /\ todo[a] # << >> /\ Head(todo[a]).op \in {"idle", "panic"}
    /\ Goto(a, "alloc", Head(todo[a]).op)
    /\ todo' = [todo EXCEPT ![a] = << >>]
    /\ UNCHANGED <<timerVars, bootVars, aplock, pc, slab, phys, objs, free, seen, mine, out,
                   events>>

-----------------------------------------------------------------------------
(* Programs on the bootstrap processor.  System calls and the tick handler *)
(* run with interrupts masked, so a tick comes when neither is under way.  *)

AnyTime == bsp = "user" /\ todo[Tick] = << >>
Interruptible == bsp = "user" /\ todo[Tick] = << >> /\ todo[Bsp] = << >>

Calls(c, ops) ==
    /\ todo' = [todo EXCEPT ![c] = ops]
    /\ UNCHANGED <<timerVars, bootVars, apVars, pc, slab, phys, objs, free, seen, mine, out>>

(* proc_fork: proc_t, arch_memory_new, virt_memory_fork, task_alloc and    *)
(* task_init, which takes the memory for the FPU from kmalloc.             *)
Fork ==
    /\ bsp = "user" /\ todo[Tick] = << >> /\ todo[Bsp] = << >>
    /\ Calls(Bsp, <<Take("proc"), Take("vmem"), TakeBlock, Take("pgt"), Take("data"),
                    TakePage, Take("task"), Take("stack"), Take("xregs")>>)
    /\ UNCHANGED events

Nanosleep ==
    /\ bsp = "user" /\ todo[Tick] = << >> /\ todo[Bsp] = << >>
    /\ events < MaxEvents
    /\ Calls(Bsp, <<Take("event")>>)
    /\ UNCHANGED events

(* ksignal_clock frees the events that have fired.                         *)
Clock ==
    /\ Interruptible
    /\ \E n \in 1 .. events :
           /\ Calls(Tick, [i \in 1 .. n |-> Give("event")])
           /\ events' = events - n

-----------------------------------------------------------------------------
(* Operations of a context.  The handler runs before what it interrupts.   *)

Runs(c) == todo[c] # << >> /\ (c = Bsp => todo[Tick] = << >>)
Op(c) == Head(todo[c])
At(c, where) == Runs(c) /\ pc[c] = where

(* The operation is over, with the other locks free.                       *)
Over(c) ==
    /\ todo' = [todo EXCEPT ![c] = Tail(@)]
    /\ pc' = [pc EXCEPT ![c] = "idle"]

LockSlab(c) ==
    /\ At(c, "idle") /\ Op(c).cache \in Caches
    /\ slab = 0
    /\ slab' = 1
    /\ pc' = [pc EXCEPT ![c] = "slab"]
    /\ UNCHANGED <<timerVars, bootVars, apVars, todo, phys, objs, free, seen, mine, out,
                   events>>

(* memory_slab_free                                                        *)
GiveObject(c) ==
    /\ At(c, "slab") /\ Op(c).op = "give"
    /\ objs' = [objs EXCEPT ![Op(c).cache] = @ + 1]
    /\ slab' = 0
    /\ Over(c)
    /\ UNCHANGED <<timerVars, bootVars, apVars, phys, free, seen, mine, out, events>>

NewEvents(c) == IF Op(c).cache = "event" THEN events + 1 ELSE events

(* memory_slab_alloc, with an object at hand                               *)
TakeObject(c) ==
    /\ At(c, "slab") /\ Op(c).op = "take" /\ objs[Op(c).cache] > 0
    /\ objs' = [objs EXCEPT ![Op(c).cache] = @ - 1]
    /\ slab' = 0
    /\ events' = NewEvents(c)
    /\ Over(c)
    /\ UNCHANGED <<timerVars, bootVars, apVars, phys, free, seen, mine, out>>

(* phys_mem_alloc: under the slab lock for a new slab, or for a process.   *)
WantsPhys(c) ==
    \/ At(c, "slab") /\ Op(c).op = "take" /\ objs[Op(c).cache] = 0
    \/ At(c, "idle") /\ Op(c) = TakePage

LockPhysAny(c) ==
    /\ WantsPhys(c)
    /\ phys' = 1
    /\ pc' = [pc EXCEPT ![c] = "phys"]
    /\ UNCHANGED <<timerVars, bootVars, apVars, todo, slab, objs, free, seen, mine, out, events>>
LockPhys(c) ==
    /\ WantsPhys(c)
    /\ phys = 0
    /\ phys' = 1
    /\ pc' = [pc EXCEPT ![c] = "phys"]
    /\ UNCHANGED <<timerVars, bootVars, apVars, todo, slab, objs, free, seen, mine, out, events>>

(* phys_mem_buddy_alloc reads the head of the list of a zone, with the     *)
(* lock or, from arch_memory_new, without it.                              *)
Unlocked(c) == Op(c) = TakeBlock
InList(c) == At(c, "phys") \/ (At(c, "idle") /\ Unlocked(c))
Zone(c) == IF Unlocked(c) THEN "kernel" ELSE "numa"

ReadHead(c) ==
    /\ InList(c) /\ free[Zone(c)] # << >>
    /\ seen' = [seen EXCEPT ![c] = free[Zone(c)]]
    /\ pc' = [pc EXCEPT ![c] = "unlink"]
    /\ UNCHANGED <<timerVars, bootVars, apVars, todo, slab, phys, objs, free, mine, out, events>>

(* The locks that the operation of the context has are free again.         *)
Unlock(c) ==
    /\ slab' = IF Op(c).cache \in Caches THEN 0 ELSE slab
    /\ phys' = IF Unlocked(c) THEN phys ELSE 0

(* and unlinks it: the head becomes the block after the one it has read.   *)
Unlink(c) ==
    LET b == Head(seen[c])
    IN  /\ At(c, "unlink")
        /\ free' = [free EXCEPT ![Zone(c)] = Tail(seen[c])]
        /\ seen' = [seen EXCEPT ![c] = << >>]
        /\ out' = [out EXCEPT ![b] = @ + 1]
        /\ mine' = IF Unlocked(c) THEN b ELSE mine
        /\ objs' = IF Op(c).cache \in Caches
                   THEN [objs EXCEPT ![Op(c).cache] = ObjsPerSlab - 1] ELSE objs
        /\ events' = NewEvents(c)
        /\ Unlock(c)
        /\ Over(c)
        /\ UNCHANGED <<timerVars, bootVars, apVars>>

(* What is undone when an operation fails, by arch_memory_new (which keeps *)
(* vmem when there is no block, and the block when there is no pgt_t) and  *)
(* task_alloc, and then by proc_fork or ap_start.  task_init clears xregs  *)
(* without a test: its process stays in panic, which has no lock and lets  *)
(* the ticks go on to other processes.                                     *)
Undo(c) ==
    CASE Op(c).cache = "pgt"   -> <<Give("vmem")>>
      [] Op(c).cache = "data"  -> <<GiveBlock, Give("pgt"), Give("vmem")>>
      [] Op(c).cache = "stack" -> <<Give("task")>>
      [] OTHER -> << >>
OnFailure(c) ==
    IF c \in Aps THEN Undo(c) \o <<Ends("panic")>>
    ELSE IF Op(c).cache \in {"proc", "xregs", "event"} THEN << >>
    ELSE Undo(c) \o <<Give("proc")>>

NoBlock(c) ==
    /\ InList(c) /\ free[Zone(c)] = << >>
    /\ Unlock(c)
    /\ todo' = [todo EXCEPT ![c] = OnFailure(c)]
    /\ pc' = [pc EXCEPT ![c] = "idle"]
    /\ UNCHANGED <<timerVars, bootVars, apVars, objs, free, seen, mine, out, events>>

(* phys_mem_buddy_free in arch_memory_new, without the lock.               *)
PutBlock(c) ==
    /\ At(c, "idle") /\ Op(c) = GiveBlock
    /\ free' = [free EXCEPT !["kernel"] = <<mine>> \o @]
    /\ out' = [out EXCEPT ![mine] = @ - 1]
    /\ mine' = 0
    /\ Over(c)
    /\ UNCHANGED <<timerVars, bootVars, apVars, slab, phys, objs, seen, events>>

-----------------------------------------------------------------------------
BspNext == BootStep \/ BootFails \/ BootWait \/ BootAwake \/ Restart \/ Fork \/ Nanosleep \/ Clock

ApNext(a) ==
    \/ Trampoline(a) \/ TakeStack(a) \/ OwnStack(a) \/ NoStack(a) \/ ReleaseStack(a)
    \/ ApProbe(a) \/ ApAlloc(a) \/ ApEnds(a)

ContextNext(c) ==
    \/ LockSlab(c) \/ GiveObject(c) \/ TakeObject(c) \/ LockPhys(c)
    \/ ReadHead(c) \/ Unlink(c) \/ NoBlock(c) \/ PutBlock(c)

Poll(c) == SleepRead(c) /\ UNCHANGED <<bootVars, apVars, heapVars>>
Time == (\E c \in Cpus : Asleep(c)) /\ TimerTick /\ UNCHANGED <<bootVars, apVars, heapVars>>

Next ==
    \/ BspNext \/ Time
    \/ \E a \in Aps : ApNext(a)
    \/ \E c \in Contexts : ContextNext(c)
    \/ \E c \in Cpus : Poll(c)

Spec == Init /\ [][Next]_vars

(* The timer and the processors never stop, and a processor that keeps     *)
(* trying a compare-and-exchange on a lock that keeps becoming free wins.  *)
ApMoves(a) == ApNext(a) \/ Poll(a) \/ ContextNext(a)
BspMoves == BootAwake \/ Poll(Bsp) \/ ContextNext(Bsp) \/ ContextNext(Tick)

Fairness == WF_vars(Time) /\ SF_vars(BspMoves) /\ \A a \in Aps : SF_vars(ApMoves(a))

FairSpec == Spec /\ Fairness

-----------------------------------------------------------------------------
(* The boot stack that all processors start on is used by one at a time,   *)
(* and a processor that goes on has a page of its own of the memory that   *)
(* bsp_start has allocated for stacks.                                     *)
StackSafe ==
    /\ \A a, b \in Aps : ap[a] = "shared" /\ ap[b] = "shared" => a = b
    /\ \A a \in Aps : ap[a] \in {"own", "start", "probe", "alloc", "idle"} =>
           StackPage(a) < MaxProcessors

(* Whatever a processor uses is set up when it uses it: each boot step of  *)
(* the bootstrap processor, each stage of another processor, which may be  *)
(* started as early as the first start-up message, and the first program.  *)
ReadyWhenUsed ==
    /\ bsp = "boot" /\ step <= Len(BootSteps) => Now.needs \subseteq ready
    /\ bsp = "user" => UserNeeds \subseteq ready
    /\ \A a \in Aps : ap[a] \in DOMAIN ApNeeds => ApNeeds[ap[a]] \subseteq ready

(* Every block is either free, once, or handed out, once: no processor     *)
(* gets memory that another one has, and none is lost.  phys_mem_alloc     *)
(* sees to it with its lock; arch_memory_new has none, and needs none as   *)
(* long as slabs and pages of processes come from another zone.            *)
BlocksOnce ==
    /\ \A z \in Zones : \A i, j \in DOMAIN free[z] : free[z][i] = free[z][j] => i = j
    /\ \A b \in Blocks :
           out[b] = IF \E z \in Zones : \E i \in DOMAIN free[z] : free[z][i] = b THEN 0 ELSE 1

(* The locks are taken in one order, held for a bounded time and never     *)
(* asked for by an interrupt handler on top of their holder: a processor   *)
(* that has started ends up in its idle task, or halted, so that time and  *)
(* again none is under way.                                                *)
ApsArrive ==
    []<>(\A a \in Aps : ap[a] \in {"reset", "wait", "idle", "halted", "panic"})
=============================================================================
