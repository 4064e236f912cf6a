-------------------------------- MODULE Fpu --------------------------------
(***************************************************************************)
(* Lazy switching of the FPU and SSE registers on the CPU that runs tasks: *)
(* task_switch and task_restart (asm.S) only set the TS flag; the first    *)
(* FPU instruction of a task then traps and isr_device_not_available       *)
(* (arch.c) saves the registers for the task they belong to and loads      *)
(* those of the task that runs.  The kernel and the idle task are compiled *)
(* not to use these registers.                                             *)
(*                                                                         *)
(* Vector 7 is a trap gate: interrupts stay enabled in the handler, so a   *)
(* tick may switch tasks between any two of its steps, and its own fxsave  *)
(* and fxrstor then trap again, one handler inside the other.              *)
(***************************************************************************)
EXTENDS Naturals, Sequences

CONSTANTS Tasks, Idle,
          Contents, Zero,   \* contents of the registers; an xregs area of zeros
          Boot,             \* what the registers hold when tasks are started
          MaxFrames         \* bound on handlers nested in one task

ASSUME FpuAssumption ==
    /\ Idle \notin Tasks
    /\ {Zero, Boot} \subseteq Contents
    /\ MaxFrames \in Nat \ {0}

VARIABLES feature,   \* what CPUID reports: "xsave", "fxsr" or "none"
          live,      \* tasks with an initialised xregs area
          cur,       \* cpu->cur_task
          ts,        \* the TS flag of CR0
          fpu_task,  \* cpu->fpu_task; Idle stands for NULL
          regs,      \* the registers
          xregs,     \* xregs[t]: the save area of task t
          frames,    \* frames[t]: the handlers task t is in, innermost first
          split      \* history: a switch has interrupted a handler

vars == <<feature, live, cur, ts, fpu_task, regs, xregs, frames, split>>

(* A handler is at one of four places; "save" has read whom to save for.   *)
Frames == [pc : {"test", "save", "restore", "own"}, victim : Tasks \cup {Idle}]
Frame(pc, victim) == [pc |-> pc, victim |-> victim]

(* _init_new has made the first process, _prepare_idle_task has cleared    *)
(* fpu_task, and the idle task is started without setting TS.              *)
Init ==
    /\ feature \in {"xsave", "fxsr", "none"}
    /\ \E t \in Tasks : live = {t}
    /\ cur = Idle /\ ts = FALSE /\ fpu_task = Idle
    /\ regs = Boot
    /\ xregs = [t \in Tasks |-> Zero]
    /\ frames = [t \in Tasks |-> <<>>]
    /\ split = FALSE

InHandler == cur # Idle /\ frames[cur] # <<>>
InProgram == cur # Idle /\ frames[cur] = <<>>

(* task_switch, and task_restart after a tick that chose a next task.      *)
SwitchKeepingTs(t) ==
    /\ t \in live \cup {Idle}
    /\ cur' = t
    /\ split' = (split \/ InHandler)
    /\ UNCHANGED <<feature, live, ts, fpu_task, regs, xregs, frames>>
Switch(t) ==
    /\ t \in live \cup {Idle}
    /\ cur' = t /\ ts' = TRUE
    /\ split' = (split \/ InHandler)
    /\ UNCHANGED <<feature, live, fpu_task, regs, xregs, frames>>

(* The running program changes the registers: no trap.                     *)
Compute(v) ==
    /\ InProgram /\ ~ts
    /\ regs' = v
    /\ UNCHANGED <<feature, live, cur, ts, fpu_task, xregs, frames, split>>

(* An FPU instruction of the program, or fxsave64 or fxrstor64 in the      *)
(* handler itself, traps: isr_device_not_available clears TS.              *)
Trap ==
    /\ InProgram \/ (InHandler /\ Head(frames[cur]).pc \in {"save", "restore"})
    /\ ts /\ feature = "fxsr"
    /\ Len(frames[cur]) < MaxFrames
    /\ ts' = FALSE
    /\ frames' = [frames EXCEPT ![cur] = <<Frame("test", Idle)>> \o @]
    /\ UNCHANGED <<feature, live, cur, fpu_task, regs, xregs, split>>

(* With XSAVE (to implement) or without FXSR the handler does nothing and  *)
(* the instruction traps again.                                            *)
TrapsAgain == InProgram /\ ts /\ feature # "fxsr" /\ UNCHANGED vars

(* The innermost handler goes on at pc, or returns.                        *)
Goto(pc, victim) ==
    frames' = [frames EXCEPT ![cur] = <<Frame(pc, victim)>> \o Tail(@)]
Return == frames' = [frames EXCEPT ![cur] = Tail(@)]

(* The tests of cpu->fpu_task, which is read once.                         *)
Test ==
    /\ InHandler /\ Head(frames[cur]).pc = "test"
    /\ \/ fpu_task = cur /\ Return
       \/ fpu_task # cur /\ fpu_task # Idle /\ Goto("save", fpu_task)
       \/ fpu_task # cur /\ fpu_task = Idle /\ Goto("restore", Idle)
    /\ UNCHANGED <<feature, live, cur, ts, fpu_task, regs, xregs, split>>

(* fxsave64(cpu->fpu_task->xregs)                                          *)
SaveNothing ==
    /\ InHandler /\ Head(frames[cur]).pc = "save" /\ ~ts
    /\ Goto("restore", Idle)
    /\ UNCHANGED <<feature, live, cur, ts, fpu_task, regs, xregs, split>>
Save ==
    /\ InHandler /\ Head(frames[cur]).pc = "save" /\ ~ts
    /\ xregs' = [xregs EXCEPT ![Head(frames[cur]).victim] = regs]
    /\ Goto("restore", Idle)
    /\ UNCHANGED <<feature, live, cur, ts, fpu_task, regs, split>>

(* fxrstor64(at->xregs)                                                    *)
Restore ==
    /\ InHandler /\ Head(frames[cur]).pc = "restore" /\ ~ts
    /\ regs' = xregs[cur]
    /\ Goto("own", Idle)
    /\ UNCHANGED <<feature, live, cur, ts, fpu_task, xregs, split>>

(* cpu->fpu_task = at                                                      *)
Own ==
    /\ InHandler /\ Head(frames[cur]).pc = "own"
    /\ fpu_task' = cur
    /\ Return
    /\ UNCHANGED <<feature, live, cur, ts, regs, xregs, split>>

(* sys_fork: proc_fork gives the child a save area of zeros.               *)
Fork(t) ==
    /\ InProgram /\ t \in Tasks \ live
    /\ live' = live \cup {t}
    /\ xregs' = [xregs EXCEPT ![t] = Zero]
    /\ UNCHANGED <<feature, cur, ts, fpu_task, regs, frames, split>>

(* sys_initexec: task_init gives the task a new save area; neither TS nor  *)
(* fpu_task changes in task_replace.                                       *)
Initexec ==
    /\ InProgram
    /\ xregs' = [xregs EXCEPT ![cur] = Zero]
    /\ UNCHANGED <<feature, live, cur, ts, fpu_task, regs, frames, split>>

Next ==
    \/ \E t \in Tasks \cup {Idle} : Switch(t)
    \/ \E v \in Contents : Compute(v)
    \/ Trap \/ TrapsAgain \/ Test \/ Save \/ Restore \/ Own
    \/ \E t \in Tasks : Fork(t)
    \/ Initexec

Spec == Init /\ [][Next]_vars

-----------------------------------------------------------------------------
(* Types.                                                                  *)
TypeOK ==
    /\ feature \in {"xsave", "fxsr", "none"}
    /\ live \subseteq Tasks
    /\ cur \in live \cup {Idle}
    /\ ts \in BOOLEAN
    /\ fpu_task \in live \cup {Idle}
    /\ regs \in Contents
    /\ xregs \in [Tasks -> Contents]
    /\ frames \in [Tasks -> Seq(Frames)]
    /\ split \in BOOLEAN

(* While a program's FPU instructions do not trap, the registers belong to *)
(* the task that runs (TS is set on every switch, and cleared only in the  *)
(* handler that loads them), as long as no tick has switched tasks inside  *)
(* the handler.                                                            *)
NoTrapOwnsFpu == ~split /\ InProgram /\ ~ts => fpu_task = cur

(* The task whose state the registers hold: nobody's once the handler has  *)
(* saved them, the new task's once it has loaded them.                     *)
Owner ==
    IF ~InHandler THEN fpu_task
    ELSE CASE Head(frames[cur]).pc = "restore" -> Idle
           [] Head(frames[cur]).pc = "own" -> cur
           [] OTHER -> fpu_task

(* What task t finds in the registers at its next FPU instruction.         *)
View(t) == IF Owner = t THEN regs ELSE xregs[t]

(* Only a task's own program changes the registers it will find: not       *)
(* another task's computing, saving or loading, not a switch, a fork or a  *)
(* program start elsewhere, and not its own trap                           *)
(* (isr_device_not_available, task_switch, task_init), as long as no tick  *)
(* has switched tasks inside the handler.                                  *)
Isolated ==
    [][~split' => \A t \in live : View(t)' # View(t) => cur = t /\ InProgram]_vars
=============================================================================
