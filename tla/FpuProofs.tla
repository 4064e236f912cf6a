----------------------------- MODULE FpuProofs -----------------------------
(***************************************************************************)
(* Proofs about Fpu.tla: for any number of tasks, any register contents    *)
(* and any nesting of handlers, lazy switching keeps the registers of      *)
(* tasks apart unless a tick switches tasks inside the handler.            *)
(***************************************************************************)
EXTENDS Fpu, SequenceTheorems, TLAPS

(* While no handler has been interrupted by a switch, only the current     *)
(* task is in one, it is in one at most and TS is clear there; a victim is *)
(* the owner, and nobody is saved for the current task.                    *)
OneHandler ==
    ~split =>
      /\ \A t \in Tasks : t # cur => frames[t] = <<>>
      /\ InHandler =>
           \E f \in Frames :
             /\ frames[cur] = <<f>>
             /\ ~ts
             /\ f.pc = "save" => f.victim = fpu_task /\ fpu_task # Idle
             /\ f.pc # "test" => fpu_task # cur

(* The inductive invariant: NoTrapOwnsFpu needs the shape of the handler.  *)
Inv == TypeOK /\ OneHandler /\ NoTrapOwnsFpu

(* The frame a handler is in (isr_device_not_available).                   *)
LEMMA FrameType ==
    ASSUME NEW pc \in {"test", "save", "restore", "own"},
           NEW victim \in Tasks \cup {Idle}
    PROVE  /\ Frame(pc, victim) \in Frames
           /\ Frame(pc, victim).pc = pc
           /\ Frame(pc, victim).victim = victim
BY DEF Frames, Frame

(* Entering, going on in and leaving a handler keep stacks of frames.      *)
LEMMA StackFacts ==
    ASSUME NEW f \in Frames, NEW s \in Seq(Frames)
    PROVE  /\ <<f>> \o s \in Seq(Frames)
           /\ s # <<>> => Tail(s) \in Seq(Frames) /\ Head(s) \in Frames
           /\ s = <<>> => <<f>> \o s = <<f>>
<1>1. <<f>> \in Seq(Frames)
    OBVIOUS
<1>2. <<f>> \o s \in Seq(Frames)
    BY <1>1, ConcatProperties
<1>3. s # <<>> => Tail(s) \in Seq(Frames) /\ Head(s) \in Frames
    BY HeadTailProperties
<1>4. s = <<>> => <<f>> \o s = <<f>>
    BY <1>1, ConcatEmptySeq
<1> QED
    BY <1>2, <1>3, <1>4

(* A stack of one frame (the handler without nesting).                     *)
LEMMA OneFrame ==
    ASSUME NEW f \in Frames, NEW g \in Frames
    PROVE  /\ Head(<<f>>) = f /\ Tail(<<f>>) = <<>>
           /\ <<g>> \o Tail(<<f>>) = <<g>>
           /\ <<f>> # <<>>
<1>1. Head(<<f>>) = f /\ <<f>> # <<>>
    OBVIOUS
<1>2. Tail(<<f>>) = <<>>
    OBVIOUS
<1>3. <<g>> \o <<>> = <<g>>
    BY <<g>> \in Seq(Frames), ConcatEmptySeq
<1> QED
    BY <1>1, <1>2, <1>3

(* In a handler that no switch has interrupted: the frame it is in.        *)
LEMMA HandlerFrame ==
    ASSUME Inv, ~split, InHandler
    PROVE  \E f \in Frames :
             /\ frames[cur] = <<f>> /\ Head(frames[cur]) = f
             /\ Tail(frames[cur]) = <<>>
             /\ ~ts
             /\ f.pc = "save" => f.victim = fpu_task /\ fpu_task # Idle
             /\ f.pc # "test" => fpu_task # cur
             /\ \A g \in Frames : <<g>> \o Tail(frames[cur]) = <<g>>
BY OneFrame DEF Inv, OneHandler

(* The types are kept by every step of the kernel or a task.               *)
LEMMA TypeStep == TypeOK /\ [Next]_vars => TypeOK'
<1> SUFFICES ASSUME TypeOK, [Next]_vars
             PROVE  TypeOK'
    OBVIOUS
<1> USE FpuAssumption DEF TypeOK
<1>0. ASSUME NEW pc \in {"test", "save", "restore", "own"},
             NEW victim \in Tasks \cup {Idle}, InHandler, Goto(pc, victim)
      PROVE  frames' \in [Tasks -> Seq(Frames)]
  <2>1. cur \in Tasks /\ frames[cur] \in Seq(Frames) /\ frames[cur] # <<>>
    BY <1>0 DEF InHandler
  <2>2. <<Frame(pc, victim)>> \o Tail(frames[cur]) \in Seq(Frames)
    BY <2>1, FrameType, StackFacts
  <2> QED
    BY <1>0, <2>1, <2>2 DEF Goto
<1>R. ASSUME InHandler, Return
      PROVE  frames' \in [Tasks -> Seq(Frames)]
  <2>1. cur \in Tasks /\ frames[cur] \in Seq(Frames) /\ frames[cur] # <<>>
    BY <1>R DEF InHandler
  <2>2. Tail(frames[cur]) \in Seq(Frames)
    BY <2>1, HeadTailProperties
  <2> QED
    BY <1>R, <2>1, <2>2 DEF Return
<1>1. CASE UNCHANGED vars
    BY <1>1 DEF vars
<1>2. ASSUME NEW t \in Tasks \cup {Idle}, Switch(t)
      PROVE  TypeOK'
    BY <1>2 DEF Switch, InHandler
<1>3. ASSUME NEW v \in Contents, Compute(v)
      PROVE  TypeOK'
    BY <1>3 DEF Compute
<1>4. CASE Trap
  <2>1. cur \in Tasks /\ frames[cur] \in Seq(Frames)
    BY <1>4 DEF Trap, InProgram, InHandler
  <2>2. <<Frame("test", Idle)>> \o frames[cur] \in Seq(Frames)
    BY <2>1, FrameType, StackFacts
  <2> QED
    BY <1>4, <2>1, <2>2 DEF Trap
<1>5. CASE TrapsAgain
    BY <1>5 DEF TrapsAgain, vars
<1>6. CASE Test
    BY <1>6, <1>0, <1>R DEF Test
<1>7. CASE Save
  <2>1. frames' \in [Tasks -> Seq(Frames)]
    BY <1>7, <1>0 DEF Save
  <2> QED
    BY <1>7, <2>1 DEF Save
<1>8. CASE Restore
  <2>1. cur \in Tasks /\ frames' \in [Tasks -> Seq(Frames)]
    BY <1>8, <1>0 DEF Restore, InHandler
  <2> QED
    BY <1>8, <2>1 DEF Restore
<1>9. CASE Own
    BY <1>9, <1>R DEF Own, InHandler
<1>10. ASSUME NEW t \in Tasks, Fork(t)
       PROVE  TypeOK'
    BY <1>10 DEF Fork
<1>11. CASE Initexec
    BY <1>11 DEF Initexec
<1> QED
    BY <1>1, <1>2, <1>3, <1>4, <1>5, <1>6, <1>7, <1>8, <1>9, <1>10, <1>11
    DEF Next

(* Every step keeps the shape of an uninterrupted handler and, with it,    *)
(* the ownership of the registers.                                         *)
LEMMA InvStep == Inv /\ [Next]_vars => Inv'
<1> SUFFICES ASSUME Inv, [Next]_vars, TypeOK', ~split'
             PROVE  OneHandler' /\ NoTrapOwnsFpu'
    BY TypeStep DEF Inv, OneHandler, NoTrapOwnsFpu
<1> USE FpuAssumption DEF TypeOK, NoTrapOwnsFpu
<1>0. Inv /\ TypeOK /\ OneHandler /\ NoTrapOwnsFpu
    BY DEF Inv
<1>1. CASE UNCHANGED vars
    BY <1>0, <1>1 DEF vars, OneHandler, InHandler, InProgram
<1>2. ASSUME NEW t \in Tasks \cup {Idle}, Switch(t)
      PROVE  OneHandler' /\ NoTrapOwnsFpu'
  <2>1. ~split /\ ~InHandler /\ ts' /\ frames' = frames
    BY <1>2 DEF Switch
  <2>2. \A s \in Tasks : frames[s] = <<>>
    BY <1>0, <2>1 DEF OneHandler, InHandler
  <2>3. ~InHandler'
    BY <2>1, <2>2, <1>2 DEF Switch, InHandler
  <2> QED
    BY <2>1, <2>2, <2>3 DEF OneHandler
<1>3. ASSUME NEW v \in Contents, Compute(v)
      PROVE  OneHandler' /\ NoTrapOwnsFpu'
    BY <1>0, <1>3 DEF Compute, OneHandler, InHandler, InProgram
<1>4. CASE Trap
  <2>1. ~split /\ ts /\ cur' = cur /\ cur \in Tasks /\ fpu_task' = fpu_task /\ ~ts'
    BY <1>4 DEF Trap, InHandler, InProgram
  <2>2. frames[cur] = <<>>
    BY <2>1, <1>0 DEF OneHandler, InHandler
  <2>3. frames' = [frames EXCEPT ![cur] = <<Frame("test", Idle)>>]
    BY <1>4, <2>1, <2>2, FrameType, StackFacts DEF Trap
  <2>4. /\ frames'[cur'] = <<Frame("test", Idle)>>
        /\ \A s \in Tasks : s # cur' => frames'[s] = <<>>
    BY <2>1, <2>3, <1>0 DEF OneHandler
  <2>5. InHandler' /\ ~InProgram'
    BY <2>1, <2>4 DEF InHandler, InProgram
  <2> QED
    BY <2>1, <2>4, <2>5, FrameType DEF OneHandler
<1>5. CASE TrapsAgain
    BY <1>0, <1>5 DEF TrapsAgain, vars, OneHandler, InHandler, InProgram
<1>6. ASSUME InHandler, ~split, cur' = cur,
             NEW pc \in {"save", "restore", "own"}, NEW victim \in Tasks \cup {Idle},
             Goto(pc, victim), ~ts', fpu_task' # cur,
             pc = "save" => victim = fpu_task' /\ victim # Idle
      PROVE  OneHandler' /\ NoTrapOwnsFpu'
  <2>1. cur \in Tasks /\ frames' = [frames EXCEPT ![cur] = <<Frame(pc, victim)>>]
    BY <1>0, <1>6, FrameType, HandlerFrame DEF Goto, InHandler
  <2>2. /\ frames'[cur'] = <<Frame(pc, victim)>>
        /\ \A s \in Tasks : s # cur' => frames'[s] = <<>>
    BY <1>6, <2>1, <1>0 DEF OneHandler
  <2>3. InHandler' /\ ~InProgram'
    BY <1>6, <2>2 DEF InHandler, InProgram
  <2> QED
    BY <1>6, <2>2, <2>3, FrameType DEF OneHandler
<1>7. ASSUME InHandler, ~split, cur' = cur, Return, fpu_task' = cur
      PROVE  OneHandler' /\ NoTrapOwnsFpu'
  <2>1. cur \in Tasks /\ frames' = [frames EXCEPT ![cur] = <<>>]
    BY <1>0, <1>7, HandlerFrame DEF Return, InHandler
  <2>2. \A s \in Tasks : frames'[s] = <<>>
    BY <1>7, <2>1, <1>0 DEF OneHandler
  <2> QED
    BY <1>7, <2>1, <2>2 DEF OneHandler, InHandler
<1>8. CASE Test
  <2>1. InHandler /\ ~split /\ cur' = cur /\ fpu_task' = fpu_task /\ ts' = ts
    BY <1>8 DEF Test
  <2>2. ~ts
    BY <1>0, <2>1, HandlerFrame
  <2>3. CASE fpu_task = cur
    BY <1>8, <2>1, <2>3, <1>7 DEF Test
  <2>4. CASE fpu_task # cur /\ fpu_task # Idle
    BY <1>0, <1>8, <2>1, <2>2, <2>4, <1>6 DEF Test
  <2>5. CASE fpu_task # cur /\ fpu_task = Idle
    BY <1>8, <2>1, <2>2, <2>5, <1>6 DEF Test
  <2> QED
    BY <2>3, <2>4, <2>5
<1>9. CASE Save \/ Restore
  <2>1. InHandler /\ ~split /\ cur' = cur /\ fpu_task' = fpu_task /\ ~ts'
    BY <1>9 DEF Save, Restore
  <2>2. Head(frames[cur]).pc # "test"
    BY <1>9 DEF Save, Restore
  <2>3. fpu_task # cur
    BY <1>0, <2>1, <2>2, HandlerFrame
  <2>4. Goto("restore", Idle) \/ Goto("own", Idle)
    BY <1>9 DEF Save, Restore
  <2> QED
    BY <2>1, <2>3, <2>4, <1>6
<1>10. CASE Own
    BY <1>10, <1>7 DEF Own
<1>11. ASSUME NEW t \in Tasks, Fork(t)
       PROVE  OneHandler' /\ NoTrapOwnsFpu'
    BY <1>0, <1>11 DEF Fork, OneHandler, InHandler, InProgram
<1>12. CASE Initexec
    BY <1>0, <1>12 DEF Initexec, OneHandler, InHandler, InProgram
<1> QED
    BY <1>1, <1>2, <1>3, <1>4, <1>5, <1>8, <1>9, <1>10, <1>11, <1>12 DEF Next

(* The inductive invariant holds in every reachable state.                 *)
LEMMA Invariant == Spec => []Inv
<1>1. Init => Inv
  <2> SUFFICES ASSUME Init
               PROVE  Inv
    OBVIOUS
  <2>1. TypeOK
    <3>1. frames \in [Tasks -> Seq(Frames)]
      BY EmptySeq DEF Init
    <3> QED
      BY <3>1, FpuAssumption DEF Init, TypeOK
  <2>2. ~InHandler /\ ~InProgram
    BY DEF Init, InHandler, InProgram
  <2> QED
    BY <2>1, <2>2 DEF Init, Inv, OneHandler, NoTrapOwnsFpu
<1> QED
    BY <1>1, InvStep, PTL DEF Spec

(* Types, for any number of tasks.                                         *)
THEOREM FpuTypes == Spec => []TypeOK
BY Invariant, PTL DEF Inv

(* While a program's FPU instructions do not trap, the registers belong to *)
(* the task that runs (TS flag and fpu_task of arch.c and asm.S), unless a *)
(* tick switched tasks inside isr_device_not_available.                    *)
THEOREM OwnRegisters == Spec => []NoTrapOwnsFpu
BY Invariant, PTL DEF Inv

(* A step changes the view of a task only if that task's program takes it. *)
LEMMA ViewStep ==
    ASSUME Inv, [Next]_vars, ~split', NEW t \in live, View(t)' # View(t)
    PROVE  cur = t /\ InProgram
<1> USE FpuAssumption DEF Inv, TypeOK, View
<1>0. Inv' /\ ~split /\ t \in Tasks /\ t # Idle
  <2>1. Inv'
    BY InvStep
  <2>2. ~split
    BY DEF Next, Switch, Compute, Trap, TrapsAgain, Test, Save, Restore, Own,
           Fork, Initexec, vars
  <2> QED
    BY <2>1, <2>2
<1>1. CASE UNCHANGED vars
    BY <1>1 DEF vars, Owner, InHandler
<1>2. ASSUME NEW s \in Tasks \cup {Idle}, Switch(s)
      PROVE  FALSE
  <2>1. ~InHandler
    BY <1>2, <1>0 DEF Switch
  <2>2. ~InHandler'
    BY <1>0, <1>2, <2>1 DEF Switch, OneHandler, InHandler
  <2> QED
    BY <1>2, <2>1, <2>2 DEF Switch, Owner
<1>3. ASSUME NEW v \in Contents, Compute(v)
      PROVE  cur = t /\ InProgram
  <2>1. InProgram /\ ~InHandler /\ ~InHandler' /\ fpu_task = cur
    BY <1>0, <1>3 DEF Compute, InProgram, InHandler, NoTrapOwnsFpu
  <2> QED
    BY <1>3, <2>1 DEF Compute, Owner
<1>4. ASSUME Trap
      PROVE  FALSE
  <2>1. ~InHandler
    BY <1>0, <1>4, HandlerFrame DEF Trap
  <2>2. cur \in Tasks /\ frames[cur] = <<>>
    BY <1>4, <2>1 DEF Trap, InProgram, InHandler
  <2>3. frames'[cur'] = <<Frame("test", Idle)>>
    BY <1>4, <2>2, FrameType, StackFacts DEF Trap
  <2>4. Head(frames'[cur']).pc = "test"
    BY <2>3, FrameType, OneFrame
  <2> QED
    BY <1>4, <2>1, <2>4 DEF Trap, Owner
<1>5. ASSUME TrapsAgain
      PROVE  FALSE
    BY <1>5 DEF TrapsAgain, vars, Owner, InHandler
<1>6. ASSUME InHandler, cur' = cur,
             NEW pc \in {"save", "restore", "own"}, NEW victim \in Tasks \cup {Idle},
             Goto(pc, victim)
      PROVE  InHandler' /\ Head(frames'[cur']).pc = pc
  <2>1. cur \in Tasks /\ frames'[cur'] = <<Frame(pc, victim)>>
    BY <1>0, <1>6, FrameType, HandlerFrame DEF Goto, InHandler
  <2> QED
    BY <1>6, <2>1, FrameType, OneFrame DEF InHandler
<1>7. ASSUME InHandler, cur' = cur, Return
      PROVE  ~InHandler'
    BY <1>0, <1>7, HandlerFrame DEF Return, InHandler
<1>8. ASSUME Test
      PROVE  FALSE
  <2>1. InHandler /\ cur' = cur /\ Head(frames[cur]).pc = "test" /\ Owner = fpu_task
    BY <1>8 DEF Test, Owner
  <2>2. CASE fpu_task = cur
    BY <1>7, <1>8, <2>1, <2>2 DEF Test, Owner
  <2>3. CASE fpu_task # cur /\ fpu_task # Idle
    BY <1>6, <1>8, <2>1, <2>3 DEF Test, Owner
  <2>4. CASE fpu_task # cur /\ fpu_task = Idle
    BY <1>6, <1>8, <2>1, <2>4 DEF Test, Owner
  <2> QED
    BY <2>2, <2>3, <2>4
<1>9. ASSUME Save
      PROVE  FALSE
  <2>1. InHandler /\ cur' = cur /\ Head(frames[cur]).pc = "save"
    BY <1>9 DEF Save
  <2>2. Head(frames[cur]).victim = fpu_task /\ fpu_task # Idle
    BY <1>0, <2>1, HandlerFrame
  <2>3. Owner = fpu_task /\ Owner' = Idle
    BY <1>6, <1>9, <2>1 DEF Save, Owner
  <2> QED
    BY <1>0, <1>9, <2>2, <2>3 DEF Save
<1>10. ASSUME Restore
       PROVE  FALSE
  <2>1. InHandler /\ cur' = cur /\ Head(frames[cur]).pc = "restore"
    BY <1>10 DEF Restore
  <2>2. Owner = Idle /\ Owner' = cur
    BY <1>6, <1>10, <2>1 DEF Restore, Owner
  <2> QED
    BY <1>0, <1>10, <2>2 DEF Restore
<1>11. ASSUME Own
       PROVE  FALSE
  <2>1. InHandler /\ cur' = cur /\ Owner = cur /\ Owner' = cur
    BY <1>7, <1>11 DEF Own, Owner
  <2> QED
    BY <1>11, <2>1 DEF Own
<1>12. ASSUME NEW s \in Tasks, Fork(s)
       PROVE  FALSE
  <2>1. ~InHandler /\ ~InHandler'
    BY <1>12 DEF Fork, InProgram, InHandler
  <2> QED
    BY <1>0, <1>12, <2>1 DEF Fork, Owner
<1>13. CASE Initexec
  <2>1. ~InHandler /\ ~InHandler'
    BY <1>13 DEF Initexec, InProgram, InHandler
  <2> QED
    BY <1>0, <1>13, <2>1 DEF Initexec, Owner
<1> QED
    BY <1>1, <1>2, <1>3, <1>4, <1>5, <1>8, <1>9, <1>10, <1>11, <1>12, <1>13
    DEF Next

(* Only a task's own program changes the registers it will find            *)
(* (isr_device_not_available, task_switch, proc_fork, task_init), unless a *)
(* tick switched tasks inside the handler.                                 *)
THEOREM Isolation == Spec => Isolated
<1>1. Inv /\ [Next]_vars =>
        [~split' => \A t \in live : View(t)' # View(t) => cur = t /\ InProgram]_vars
    BY ViewStep
<1> QED
    BY <1>1, Invariant, PTL DEF Spec, Isolated
=============================================================================
