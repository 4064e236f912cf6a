----------------------------- MODULE BootProofs ----------------------------
(***************************************************************************)
(* Proofs about the start of the machine (modules Boot, PmTimer and Smp),  *)
(* for any number of processors: waits are exact, the boot stack is used   *)
(* by one processor at a time, and what a processor uses is set up when it *)
(* uses it.                                                                *)
(***************************************************************************)
EXTENDS Smp, SequenceTheorems, TLAPS

-----------------------------------------------------------------------------
(* The wait of acpi_busy_usleep is exact for every period of the counter,  *)
(* every length of the wait and every number of processors that wait.      *)

(* The ticks accumulated and those since the last read make up the time    *)
(* that has passed; the last turn of the loop adds less than a period.     *)
TimerInv ==
    /\ tmr \in 0 .. Period - 1
    /\ usec \in [Cpus -> Nat]
    /\ acc \in [Cpus -> Nat]
    /\ prev \in [Cpus -> 0 .. Period - 1]
    /\ since \in [Cpus -> Nat]
    /\ \A c \in Cpus : Asleep(c) =>
           /\ since[c] = acc[c] + Behind(c)
           /\ acc[c] < Clk(c) + Period

(* The conversion to counts rounds down.                                   *)
LEMMA ClkBounds ==
    ASSUME usec \in [Cpus -> Nat], NEW c \in Cpus
    PROVE  /\ Clk(c) \in Nat /\ TmrHz * usec[c] \in Nat
           /\ Clk(c) * UsecPerSec <= TmrHz * usec[c]
           /\ TmrHz * usec[c] < Clk(c) * UsecPerSec + UsecPerSec
<1>. DEFINE n == TmrHz * usec[c]
<1>1. n \in Nat /\ UsecPerSec \in Nat \ {0}
  BY PmTimerAssumption
<1>. HIDE DEF n
<1>2. /\ n \div UsecPerSec \in Nat
      /\ (n \div UsecPerSec) * UsecPerSec <= n
      /\ n < (n \div UsecPerSec) * UsecPerSec + UsecPerSec
  BY <1>1
<1>. QED
  BY <1>1, <1>2 DEF n, Clk

LEMMA ClkAfter ==
    ASSUME usec' \in [Cpus -> Nat], NEW c \in Cpus
    PROVE  Clk(c)' \in Nat
<1>1. TmrHz * usec'[c] \in Nat /\ UsecPerSec \in Nat \ {0}
  BY PmTimerAssumption
<1>. QED
  BY <1>1 DEF Clk

LEMMA ClkKept ==
    ASSUME NEW c \in Cpus, usec'[c] = usec[c]
    PROVE  Clk(c)' = Clk(c)
  BY DEF Clk

LEMMA MulMonotone ==
    ASSUME NEW i \in Nat, NEW k \in Nat, NEW m \in Nat, i <= k
    PROVE  i * m <= k * m
  OBVIOUS

(* The counter after a tick.                                               *)
LEMMA Wrap ==
    ASSUME NEW t \in 0 .. Period - 1
    PROVE  (t + 1) % Period = IF t = Period - 1 THEN 0 ELSE t + 1
<1>1. CASE t = Period - 1
  BY <1>1, PmTimerAssumption, Z3
<1>2. CASE t < Period - 1
  BY <1>2, PmTimerAssumption, Z3
<1>. QED
  BY <1>1, <1>2, PmTimerAssumption

(* What a processor is behind is less than a period.                       *)
LEMMA BehindBound ==
    ASSUME TimerInv, NEW c \in Cpus
    PROVE  Behind(c) \in 0 .. Period - 1
  BY PmTimerAssumption DEF TimerInv, Behind

LEMMA TimerStart == TimerInit => TimerInv
  BY PmTimerAssumption DEF TimerInit, TimerInv, Asleep

(* The step of TimerInv, for each action of the timer and the waits.       *)
LEMMA TimerStep == TimerInv /\ [TimerNext]_timerVars => TimerInv'
<1>. SUFFICES ASSUME TimerInv, [TimerNext]_timerVars PROVE TimerInv'
  OBVIOUS
<1>1. CASE TimerTick
  <2>. USE <1>1 DEF TimerTick, TimerInv
  <2>1. tmr' = IF tmr = Period - 1 THEN 0 ELSE tmr + 1
    BY Wrap
  <2>2. tmr' \in 0 .. Period - 1
    BY <2>1, PmTimerAssumption
  <2>3. since' \in [Cpus -> Nat]
    OBVIOUS
  <2>4. ASSUME NEW c \in Cpus, Asleep(c)'
        PROVE  since'[c] = acc'[c] + Behind(c)' /\ acc'[c] < Clk(c)' + Period
    <3>1. Asleep(c)
      BY <2>4 DEF Asleep
    <3>2. Behind(c) < Period - 1
      BY <3>1 DEF TimelyReads
    <3>3. Behind(c)' = Behind(c) + 1
      BY <2>1, <3>2, PmTimerAssumption DEF Behind
    <3>4. Behind(c) \in Nat
      BY BehindBound
    <3>5. Clk(c)' = Clk(c)
      BY ClkKept
    <3>. QED
      BY <3>1, <3>3, <3>4, <3>5
  <2>. QED
    BY <2>2, <2>3, <2>4
<1>2. ASSUME NEW c \in Cpus, NEW n \in Nat \ {0}, SleepStart(c, n) PROVE TimerInv'
  <2>1. /\ tmr' \in 0 .. Period - 1 /\ usec' \in [Cpus -> Nat] /\ acc' \in [Cpus -> Nat]
        /\ prev' \in [Cpus -> 0 .. Period - 1] /\ since' \in [Cpus -> Nat]
    BY <1>2, PmTimerAssumption DEF SleepStart, TimerInv
  <2>2. ASSUME NEW d \in Cpus, Asleep(d)'
        PROVE  since'[d] = acc'[d] + Behind(d)' /\ acc'[d] < Clk(d)' + Period
    <3>1. CASE d = c
      <4>1. Clk(c)' \in Nat
        BY <2>1, ClkAfter
      <4>. QED
        BY <1>2, <3>1, <4>1, PmTimerAssumption DEF SleepStart, TimerInv, Behind
    <3>2. CASE d # c
      <4>1. Clk(d)' = Clk(d)
        BY <1>2, <3>2, ClkKept DEF SleepStart, TimerInv
      <4>. QED
        BY <1>2, <2>2, <3>2, <4>1 DEF SleepStart, TimerInv, Asleep, Behind
    <3>. QED
      BY <3>1, <3>2
  <2>. QED
    BY <2>1, <2>2 DEF TimerInv
<1>3. ASSUME NEW c \in Cpus, SleepRead(c) PROVE TimerInv'
  <2>1. Behind(c) \in 0 .. Period - 1
    BY BehindBound
  <2>2. acc' \in [Cpus -> Nat] /\ prev' \in [Cpus -> 0 .. Period - 1]
    BY <1>3, <2>1, PmTimerAssumption DEF SleepRead, TimerInv
  <2>3. ASSUME NEW d \in Cpus, Asleep(d)'
        PROVE  since'[d] = acc'[d] + Behind(d)' /\ acc'[d] < Clk(d)' + Period
    <3>1. CASE d = c
      <4>1. acc'[c] = acc[c] + Behind(c) /\ Behind(c)' = 0
        BY <1>3, PmTimerAssumption DEF SleepRead, TimerInv, Behind
      <4>2. Clk(c)' = Clk(c) /\ Clk(c) \in Nat
        BY <1>3, ClkKept, ClkBounds DEF SleepRead, TimerInv
      <4>. QED
        BY <1>3, <2>1, <2>3, <3>1, <4>1, <4>2, PmTimerAssumption
           DEF SleepRead, TimerInv, Asleep
    <3>2. CASE d # c
      <4>1. Clk(d)' = Clk(d)
        BY <1>3, ClkKept DEF SleepRead
      <4>. QED
        BY <1>3, <2>3, <3>2, <4>1 DEF SleepRead, TimerInv, Asleep, Behind
    <3>. QED
      BY <3>1, <3>2
  <2>. QED
    BY <1>3, <2>2, <2>3 DEF SleepRead, TimerInv
<1>4. ASSUME NEW c \in Cpus, SleepEnd(c) PROVE TimerInv'
  <2>1. /\ tmr' \in 0 .. Period - 1 /\ usec' \in [Cpus -> Nat] /\ acc' \in [Cpus -> Nat]
        /\ prev' \in [Cpus -> 0 .. Period - 1] /\ since' \in [Cpus -> Nat]
    BY <1>4, PmTimerAssumption DEF SleepEnd, TimerInv
  <2>2. ASSUME NEW d \in Cpus, Asleep(d)'
        PROVE  since'[d] = acc'[d] + Behind(d)' /\ acc'[d] < Clk(d)' + Period
    <3>1. d # c
      BY <1>4, <2>2 DEF SleepEnd, TimerInv, Asleep
    <3>2. Clk(d)' = Clk(d)
      BY <1>4, <3>1, ClkKept DEF SleepEnd, TimerInv
    <3>. QED
      BY <1>4, <2>2, <3>1, <3>2 DEF SleepEnd, TimerInv, Asleep, Behind
  <2>. QED
    BY <2>1, <2>2 DEF TimerInv
<1>5. CASE UNCHANGED timerVars
  BY <1>5 DEF timerVars, TimerInv, Asleep, Behind, Clk
<1>. QED
  BY <1>1, <1>2, <1>3, <1>4, <1>5 DEF TimerNext

LEMMA TimerInvariant == TimerSpec => []TimerInv
  BY TimerStart, TimerStep, PTL DEF TimerSpec

(* A wait ends when its ticks have passed, and in time.                    *)
LEMMA CountStep ==
    ASSUME TimerInv, [TimerNext]_timerVars, NEW c \in Cpus, Asleep(c), usec'[c] = 0
    PROVE  Clk(c) <= since[c] /\ since[c] < Clk(c) + 2 * Period
<1>1. acc[c] >= Clk(c)
  <2>1. CASE TimerTick
    BY <2>1 DEF TimerTick, Asleep
  <2>2. ASSUME NEW d \in Cpus, NEW n \in Nat \ {0}, SleepStart(d, n) PROVE FALSE
    BY <2>2 DEF SleepStart, Asleep, TimerInv
  <2>3. ASSUME NEW d \in Cpus, SleepRead(d) PROVE FALSE
    BY <2>3 DEF SleepRead, Asleep
  <2>4. ASSUME NEW d \in Cpus, SleepEnd(d) PROVE acc[c] >= Clk(c)
    BY <2>4 DEF SleepEnd, Asleep, TimerInv
  <2>. QED
    BY <2>1, <2>2, <2>3, <2>4 DEF TimerNext, timerVars, Asleep
<1>2. Behind(c) \in 0 .. Period - 1
  BY BehindBound
<1>3. Clk(c) \in Nat
  BY ClkBounds DEF TimerInv
<1>. QED
  BY <1>1, <1>2, <1>3, PmTimerAssumption DEF TimerInv

(* In microseconds, the wait is short by less than a tick.                 *)
LEMMA ExactStep ==
    ASSUME TimerInv, [TimerNext]_timerVars, NEW c \in Cpus, Asleep(c), usec'[c] = 0
    PROVE  /\ TmrHz * usec[c] < (since[c] + 1) * UsecPerSec
           /\ since[c] * UsecPerSec < TmrHz * usec[c] + (2 * Period) * UsecPerSec
<1>. DEFINE n == TmrHz * usec[c]  k == Clk(c)  s == since[c]  u == UsecPerSec  p == 2 * Period
<1>1. /\ n \in Nat /\ k \in Nat /\ s \in Nat /\ u \in Nat \ {0} /\ p \in Nat
      /\ k * u <= n /\ n < k * u + u
  BY ClkBounds, PmTimerAssumption DEF TimerInv
<1>2. k <= s /\ s < k + p
  BY CountStep
<1>. HIDE DEF n, k, s, u, p
<1>3. k * u <= s * u /\ s * u <= (k + p - 1) * u
  <2>1. k + p - 1 \in Nat /\ s <= k + p - 1
    BY <1>1, <1>2
  <2>. QED
    BY <1>1, <1>2, <2>1, MulMonotone
<1>4. (s + 1) * u = s * u + u /\ (k + p - 1) * u = k * u + p * u - u
  BY <1>1
<1>5. k * u \in Nat /\ s * u \in Nat /\ p * u \in Nat
  BY <1>1
<1>6. n < (s + 1) * u
  BY <1>1, <1>3, <1>4, <1>5
<1>7. s * u < n + p * u
  BY <1>1, <1>3, <1>4, <1>5
<1>. QED
  BY <1>6, <1>7 DEF n, s, u, p

(* acpi_busy_usleep returns neither a tick early nor two periods late,     *)
(* whatever the period of the timer and however often its counter wraps.   *)
THEOREM SleepIsExact == TimerSpec => SleepExact
<1>1. TimerInv /\ [TimerNext]_timerVars =>
          [\A c \in Cpus : Asleep(c) /\ usec'[c] = 0 =>
               /\ TmrHz * usec[c] < (since[c] + 1) * UsecPerSec
               /\ since[c] * UsecPerSec < TmrHz * usec[c] + (2 * Period) * UsecPerSec]_timerVars
  BY ExactStep
<1>. QED
  BY <1>1, TimerInvariant, PTL DEF TimerSpec, SleepExact

-----------------------------------------------------------------------------
(* The boot stack.  A processor has the lock from the moment it takes the  *)
(* stack until it runs on its own, or halts for want of one.               *)

Holds(a) == ap[a] \in {"shared", "own"}
Beyond == {"own", "start", "probe", "alloc", "idle"}

StackInv ==
    /\ DOMAIN ap = Aps
    /\ \A a, b \in Aps : Holds(a) /\ Holds(b) => a = b
    /\ \A a \in Aps : Holds(a) => aplock = 1
    /\ \A a \in Aps : ap[a] \in Beyond => a < MaxProcessors

LEMMA StackStart == Init => StackInv
  BY DEF Init, StackInv, Holds, Beyond

(* Allocation does not touch the processors' places or their lock.         *)
LEMMA ContextKeepsAps ==
    ASSUME NEW c \in Contexts, ContextNext(c) PROVE UNCHANGED <<apVars, timerVars, bootVars>>
<1>1. CASE LockSlab(c)   BY <1>1 DEF LockSlab
<1>2. CASE GiveObject(c) BY <1>2 DEF GiveObject
<1>3. CASE TakeObject(c) BY <1>3 DEF TakeObject
<1>4. CASE LockPhys(c)   BY <1>4 DEF LockPhys
<1>5. CASE ReadHead(c)   BY <1>5 DEF ReadHead
<1>6. CASE Unlink(c)     BY <1>6 DEF Unlink
<1>7. CASE NoBlock(c)    BY <1>7 DEF NoBlock
<1>8. CASE PutBlock(c)   BY <1>8 DEF PutBlock
<1>. QED
  BY <1>1, <1>2, <1>3, <1>4, <1>5, <1>6, <1>7, <1>8 DEF ContextNext

(* INIT and start-up messages only move processors that wait for them, and *)
(* none onto the stack.                                                    *)
LEMMA SignalsAreOutside ==
    ASSUME StackInv, NEW next \in Signalled
    PROVE  /\ DOMAIN next = Aps
           /\ \A a \in Aps : \/ next[a] = ap[a]
                             \/ next[a] \in {"wait", "started"} /\ ap[a] \in {"reset", "wait"}
<1>1. CASE Now.name = "INIT"
  BY <1>1 DEF Signalled, StackInv
<1>2. CASE Now.name = "SIPI"
  BY <1>2 DEF Signalled, StackInv
<1>3. CASE Now.name # "INIT" /\ Now.name # "SIPI"
  BY <1>3 DEF Signalled, StackInv
<1>. QED
  BY <1>1, <1>2, <1>3

LEMMA StackKept == ASSUME StackInv, UNCHANGED apVars PROVE StackInv'
  BY DEF StackInv, Holds, apVars

LEMMA StackStep == StackInv /\ [Next]_vars => StackInv'
<1>. SUFFICES ASSUME StackInv, [Next]_vars PROVE StackInv'
  OBVIOUS
<1>1. CASE BspNext
  <2>1. CASE BootStep
    BY <2>1, SignalsAreOutside DEF BootStep, StackInv, Holds, Beyond
  <2>2. CASE BootFails \/ BootWait \/ BootAwake \/ Restart \/ Fork \/ Nanosleep \/ Clock
    BY <2>2, StackKept
       DEF BootFails, BootWait, BootAwake, Restart, Fork, Nanosleep, Clock, Calls
  <2>. QED
    BY <1>1, <2>1, <2>2 DEF BspNext
<1>2. ASSUME NEW a \in Aps, ApNext(a) PROVE StackInv'
  <2>. USE DEF StackInv, Holds, Beyond, Goto
  <2>1. CASE Trampoline(a)
    BY <2>1 DEF Trampoline
  <2>2. CASE TakeStack(a)
    BY <2>2 DEF TakeStack
  <2>3. CASE OwnStack(a)
    BY <2>3 DEF OwnStack
  <2>4. CASE NoStack(a)
    BY <2>4 DEF NoStack
  <2>5. CASE ReleaseStack(a)
    BY <2>5 DEF ReleaseStack
  <2>6. CASE ApProbe(a)
    BY <2>6 DEF ApProbe
  <2>7. CASE ApAlloc(a)
    BY <2>7 DEF ApAlloc
  <2>8. CASE ApEnds(a)
    BY <2>8 DEF ApEnds
  <2>. QED
    BY <1>2, <2>1, <2>2, <2>3, <2>4, <2>5, <2>6, <2>7, <2>8 DEF ApNext
<1>3. CASE UNCHANGED vars \/ Time \/ \E c \in Cpus : Poll(c)
  BY <1>3, StackKept DEF vars, Time, Poll
<1>4. ASSUME NEW c \in Contexts, ContextNext(c) PROVE StackInv'
  BY <1>4, ContextKeepsAps, StackKept
<1>. QED
  BY <1>1, <1>2, <1>3, <1>4 DEF Next

(* The boot stack is used by one processor at a time, and a processor that *)
(* leaves it runs on a page of the allocated stacks (ap_entry32, 64).      *)
THEOREM StackIsSafe == Spec => []StackSafe
<1>1. StackInv => StackSafe
  <2>. SUFFICES ASSUME StackInv PROVE StackSafe
    OBVIOUS
  <2>1. \A a, b \in Aps : ap[a] = "shared" /\ ap[b] = "shared" => a = b
    BY DEF StackInv, Holds
  <2>2. \A a \in Aps : ap[a] \in Beyond => StackPage(a) < MaxProcessors
    BY SmpAssumption DEF StackInv, StackPage
  <2>. QED
    BY <2>1, <2>2 DEF StackSafe, Beyond
<1>. QED
  BY <1>1, StackStart, StackStep, PTL DEF Spec

-----------------------------------------------------------------------------
(* Every step of the machine is one of the timer and its waits.            *)

LEMMA TimerStepOrNone ==
    ASSUME [Next]_vars PROVE [TimerNext]_timerVars
<1>1. CASE BspNext
  <2>1. CASE BootWait
    <3>1. PICK n \in Delays : SleepStart(Bsp, n)
      BY <2>1 DEF BootWait
    <3>2. n \in Nat \ {0} /\ Bsp \in Cpus
      BY <3>1, BootAssumption, SmpAssumption DEF Delays
    <3>. QED
      BY <3>1, <3>2 DEF TimerNext
  <2>2. CASE BootAwake
    BY <2>2, SmpAssumption, Zenon DEF BootAwake, TimerNext
  <2>3. CASE BootStep \/ BootFails \/ Restart \/ Fork \/ Nanosleep \/ Clock
    BY <2>3 DEF BootStep, BootFails, Restart, Fork, Nanosleep, Clock, Calls
  <2>. QED
    BY <1>1, <2>1, <2>2, <2>3 DEF BspNext
<1>2. ASSUME NEW a \in Aps, ApNext(a) PROVE [TimerNext]_timerVars
  <2>. a \in Cpus /\ Probe \in Nat \ {0}
    BY SmpAssumption, BootAssumption DEF Delays
  <2>1. CASE ApProbe(a)
    BY <2>1 DEF ApProbe, TimerNext
  <2>2. CASE ApAlloc(a)
    BY <2>2 DEF ApAlloc, TimerNext
  <2>3. CASE \/ Trampoline(a) \/ TakeStack(a) \/ OwnStack(a) \/ NoStack(a)
             \/ ReleaseStack(a) \/ ApEnds(a)
    BY <2>3 DEF Trampoline, TakeStack, OwnStack, NoStack, ReleaseStack, ApEnds
  <2>. QED
    BY <1>2, <2>1, <2>2, <2>3 DEF ApNext
<1>3. CASE UNCHANGED vars \/ Time \/ \E c \in Cpus : Poll(c)
  BY <1>3 DEF vars, Time, Poll, TimerNext
<1>4. ASSUME NEW c \in Contexts, ContextNext(c) PROVE [TimerNext]_timerVars
  BY <1>4, ContextKeepsAps
<1>. QED
  BY <1>1, <1>2, <1>3, <1>4 DEF Next

(* The machine implements the timer and its waits: what the processors do  *)
(* besides (boot, locks, interrupts, allocation) never disturbs a wait.    *)
THEOREM MachineRefinesTimer == Spec => TimerSpec
<1>1. Init => TimerInit
  BY DEF Init
<1>. QED
  BY <1>1, TimerStepOrNone, PTL DEF Spec, TimerSpec

(* So the waits between the start-up messages and those of the estimates   *)
(* of the bus frequency, on any number of processors at a time, are exact. *)
THEOREM WaitsAreExact == Spec => SleepExact
  BY MachineRefinesTimer, SleepIsExact

-----------------------------------------------------------------------------
(* The order of the boot.  A sequence of boot steps is in order after R if *)
(* each step finds what it needs in R or among what earlier steps have set *)
(* up.  A start-up message needs all that another processor needs.         *)

ForAps == {"trampoline", "boot_pgt", "apvar", "kmem", "gdt", "idt", "tss", "arch_acpi",
           "task", "stack", "gates"}
Needs(x) == x.needs \cup (IF x.name = "SIPI" THEN ForAps ELSE {})

Before(s, i) == {s[j].name : j \in {k \in 1 .. i - 1 : s[k].wait = 0}}

InOrder(s, R, O) ==
    /\ \E S : s \in Seq(S)
    /\ \A i \in 1 .. Len(s) : Needs(s[i]) \subseteq R \cup Before(s, i)
    /\ O \subseteq Before(s, Len(s) + 1)

(* Two parts of the boot, one after the other.                             *)
LEMMA OrderConcat ==
    ASSUME NEW s, NEW t, NEW R, NEW O, NEW P, InOrder(s, R, O), InOrder(t, R \cup O, P)
    PROVE  InOrder(s \o t, R, O \cup P)
<1>a. PICK S, T : s \in Seq(S) /\ t \in Seq(T)
  BY DEF InOrder
<1>0. /\ s \in Seq(S \cup T) /\ t \in Seq(S \cup T)
      /\ Len(s) \in Nat /\ Len(t) \in Nat
  BY <1>a, LenProperties
<1> DEFINE u == s \o t
<1>1. /\ u \in Seq(S \cup T) /\ Len(u) = Len(s) + Len(t)
      /\ \A i \in 1 .. Len(u) : u[i] = IF i <= Len(s) THEN s[i] ELSE t[i - Len(s)]
  BY <1>0, ConcatProperties
<1> HIDE DEF u
<1>2. \A i \in 1 .. Len(s) + 1 : Before(u, i) = Before(s, i)
  <2>1. ASSUME NEW i \in 1 .. Len(s) + 1, NEW j \in 1 .. i - 1 PROVE u[j] = s[j]
    BY <1>0, <1>1
  <2> QED
    BY <2>1 DEF Before
<1>3. \A i \in 1 .. Len(t) + 1 :
          /\ Before(s, Len(s) + 1) \subseteq Before(u, Len(s) + i)
          /\ Before(t, i) \subseteq Before(u, Len(s) + i)
  <2> SUFFICES ASSUME NEW i \in 1 .. Len(t) + 1
               PROVE  /\ Before(s, Len(s) + 1) \subseteq Before(u, Len(s) + i)
                      /\ Before(t, i) \subseteq Before(u, Len(s) + i)
    OBVIOUS
  <2>1. \A j \in 1 .. Len(s) : u[j] = s[j] /\ j \in 1 .. Len(s) + i - 1
    BY <1>0, <1>1
  <2>2. ASSUME NEW j \in 1 .. i - 1
        PROVE  u[Len(s) + j] = t[j] /\ Len(s) + j \in 1 .. Len(s) + i - 1
    <3> DEFINE k == Len(s) + j
    <3>1. k \in 1 .. Len(u) /\ ~(k <= Len(s)) /\ k - Len(s) = j
      BY <1>0, <1>1
    <3>2. k \in 1 .. Len(s) + i - 1
      BY <1>0
    <3> HIDE DEF k
    <3>3. u[k] = t[j]
      BY <1>1, <3>1
    <3> QED
      BY <3>2, <3>3 DEF k
  <2>3. ASSUME NEW n \in Before(s, Len(s) + 1) PROVE n \in Before(u, Len(s) + i)
    <3>1. PICK j \in 1 .. Len(s) : s[j].wait = 0 /\ s[j].name = n
      BY <1>0, <2>3 DEF Before
    <3> QED
      BY <2>1, <3>1, <2>3 DEF Before
  <2>4. ASSUME NEW n \in Before(t, i) PROVE n \in Before(u, Len(s) + i)
    <3>1. PICK j \in 1 .. i - 1 : t[j].wait = 0 /\ t[j].name = n
      BY <2>4 DEF Before
    <3> DEFINE k == Len(s) + j
    <3>2. k \in 1 .. Len(s) + i - 1 /\ u[k] = t[j]
      BY <2>2
    <3> HIDE DEF k
    <3> QED
      BY <2>4, <3>1, <3>2 DEF Before
  <2> QED
    BY <2>3, <2>4
<1>4. ASSUME NEW i \in 1 .. Len(u) PROVE Needs(u[i]) \subseteq R \cup Before(u, i)
  <2>1. CASE i <= Len(s)
    <3>1. i \in 1 .. Len(s) /\ i \in 1 .. Len(s) + 1 /\ u[i] = s[i]
      BY <1>0, <1>1, <2>1
    <3>2. Before(u, i) = Before(s, i)
      BY <1>2, <3>1
    <3> QED
      BY <3>1, <3>2 DEF InOrder
  <2>2. CASE i > Len(s)
    <3> DEFINE k == i - Len(s)
    <3>1. k \in 1 .. Len(t) /\ k \in 1 .. Len(t) + 1 /\ u[i] = t[k] /\ i = Len(s) + k
      BY <1>0, <1>1, <2>2
    <3> HIDE DEF k
    <3>2. Before(s, Len(s) + 1) \subseteq Before(u, i) /\ Before(t, k) \subseteq Before(u, i)
      BY <1>3, <3>1
    <3>3. Needs(t[k]) \subseteq (R \cup O) \cup Before(t, k) /\ O \subseteq Before(s, Len(s) + 1)
      BY <3>1 DEF InOrder
    <3> QED
      BY <3>1, <3>2, <3>3
  <2> QED
    BY <1>0, <1>1, <2>1, <2>2
<1>5. O \cup P \subseteq Before(u, Len(u) + 1)
  <2>1. Len(t) + 1 \in 1 .. Len(t) + 1 /\ Len(s) + (Len(t) + 1) = Len(u) + 1
    BY <1>0, <1>1
  <2>2. /\ Before(s, Len(s) + 1) \subseteq Before(u, Len(u) + 1)
        /\ Before(t, Len(t) + 1) \subseteq Before(u, Len(u) + 1)
    BY <1>3, <2>1
  <2> QED
    BY <2>2 DEF InOrder
<1> QED
  BY <1>1, <1>4, <1>5 DEF InOrder, u

(* What more is set up before, or fewer results asked of it, do no harm.   *)
LEMMA OrderWeaken ==
    ASSUME NEW s, NEW R, NEW O, InOrder(s, R, O), NEW Q, R \subseteq Q, NEW P, P \subseteq O
    PROVE  InOrder(s, Q, P)
  BY DEF InOrder

LEMMA OrderOne ==
    ASSUME NEW x, NEW R, Needs(x) \subseteq R
    PROVE  /\ InOrder(<<x>>, R, {})
           /\ x.wait = 0 => InOrder(<<x>>, R, {x.name})
<1> DEFINE s == <<x>>
<1>1. s \in Seq({x}) /\ Len(s) = 1 /\ s[1] = x
  OBVIOUS
<1> HIDE DEF s
<1>2. \A i \in 1 .. Len(s) : Needs(s[i]) \subseteq R \cup Before(s, i)
  BY <1>1
<1>3. x.wait = 0 => x.name \in Before(s, Len(s) + 1)
  BY <1>1 DEF Before
<1>4. InOrder(s, R, {}) /\ (x.wait = 0 => InOrder(s, R, {x.name}))
  BY <1>1, <1>2, <1>3 DEF InOrder
<1> QED
  BY <1>4 DEF s

LEMMA OneMoreStep ==
    ASSUME NEW S, NEW s \in Seq(S), NEW x \in S, NEW t \in Seq(S),
           Len(t) = Len(s) + 1, \A i \in 1 .. Len(s) : t[i] = s[i], t[Len(s) + 1] = x
    PROVE  t = s \o <<x>>
<1> DEFINE u == s \o <<x>>
<1>0. <<x>> \in Seq(S) /\ Len(<<x>>) = 1 /\ <<x>>[1] = x /\ Len(s) \in Nat
  BY LenProperties
<1>1. /\ u \in Seq(S) /\ Len(u) = Len(s) + 1
      /\ \A i \in 1 .. Len(u) : u[i] = IF i <= Len(s) THEN s[i] ELSE <<x>>[i - Len(s)]
  BY <1>0, ConcatProperties
<1> HIDE DEF u
<1>2. \A i \in 1 .. Len(t) : t[i] = u[i]
  BY <1>0, <1>1
<1>3. t = u
  BY <1>1, <1>2, SeqEqual
<1> QED
  BY <1>3 DEF u

LEMMA Literal2 ==
    ASSUME NEW a, NEW b
    PROVE  <<a, b>> = <<a>> \o <<b>>
<1> DEFINE s == <<a>>
           t == <<a, b>>
           S == {a, b}
<1>1. s \in Seq(S) /\ t \in Seq(S) /\ Len(s) = 1 /\ Len(t) = 2 /\ b \in S
  OBVIOUS
<1>2. /\ s[1] = a
      /\ t[1] = a /\ t[2] = b
  OBVIOUS
<1> HIDE DEF s, t, S
<1>3. \A i \in 1 .. Len(s) : t[i] = s[i]
  BY <1>1, <1>2
<1>4. Len(t) = Len(s) + 1 /\ t[Len(s) + 1] = b
  BY <1>1, <1>2
<1>5. t = s \o <<b>>
  BY <1>1, <1>3, <1>4, OneMoreStep, Zenon
<1> QED
  BY <1>5 DEF s, t

LEMMA Literal3 ==
    ASSUME NEW a, NEW b, NEW c
    PROVE  <<a, b, c>> = <<a, b>> \o <<c>>
<1> DEFINE s == <<a, b>>
           t == <<a, b, c>>
           S == {a, b, c}
<1>1. s \in Seq(S) /\ t \in Seq(S) /\ Len(s) = 2 /\ Len(t) = 3 /\ c \in S
  OBVIOUS
<1>2. /\ s[1] = a /\ s[2] = b
      /\ t[1] = a /\ t[2] = b /\ t[3] = c
  OBVIOUS
<1> HIDE DEF s, t, S
<1>3. \A i \in 1 .. Len(s) : t[i] = s[i]
  BY <1>1, <1>2
<1>4. Len(t) = Len(s) + 1 /\ t[Len(s) + 1] = c
  BY <1>1, <1>2
<1>5. t = s \o <<c>>
  BY <1>1, <1>3, <1>4, OneMoreStep, Zenon
<1> QED
  BY <1>5 DEF s, t

LEMMA Literal4 ==
    ASSUME NEW a, NEW b, NEW c, NEW d
    PROVE  <<a, b, c, d>> = <<a, b, c>> \o <<d>>
<1> DEFINE s == <<a, b, c>>
           t == <<a, b, c, d>>
           S == {a, b, c, d}
<1>1. s \in Seq(S) /\ t \in Seq(S) /\ Len(s) = 3 /\ Len(t) = 4 /\ d \in S
  OBVIOUS
<1>2. /\ s[1] = a /\ s[2] = b /\ s[3] = c
      /\ t[1] = a /\ t[2] = b /\ t[3] = c /\ t[4] = d
  OBVIOUS
<1> HIDE DEF s, t, S
<1>3. \A i \in 1 .. Len(s) : t[i] = s[i]
  BY <1>1, <1>2
<1>4. Len(t) = Len(s) + 1 /\ t[Len(s) + 1] = d
  BY <1>1, <1>2
<1>5. t = s \o <<d>>
  BY <1>1, <1>3, <1>4, OneMoreStep, Zenon
<1> QED
  BY <1>5 DEF s, t

LEMMA Literal5 ==
    ASSUME NEW a, NEW b, NEW c, NEW d, NEW e
    PROVE  <<a, b, c, d, e>> = <<a, b, c, d>> \o <<e>>
<1> DEFINE s == <<a, b, c, d>>
           t == <<a, b, c, d, e>>
           S == {a, b, c, d, e}
<1>1. s \in Seq(S) /\ t \in Seq(S) /\ Len(s) = 4 /\ Len(t) = 5 /\ e \in S
  OBVIOUS
<1>2. /\ s[1] = a /\ s[2] = b /\ s[3] = c /\ s[4] = d
      /\ t[1] = a /\ t[2] = b /\ t[3] = c /\ t[4] = d /\ t[5] = e
  OBVIOUS
<1> HIDE DEF s, t, S
<1>3. \A i \in 1 .. Len(s) : t[i] = s[i]
  BY <1>1, <1>2
<1>4. Len(t) = Len(s) + 1 /\ t[Len(s) + 1] = e
  BY <1>1, <1>2
<1>5. t = s \o <<e>>
  BY <1>1, <1>3, <1>4, OneMoreStep, Zenon
<1> QED
  BY <1>5 DEF s, t

SixSteps(a, b, c, d, e, f) == <<a, b, c, d, e, f>> = <<a, b, c, d, e>> \o <<f>>

LEMMA Literal6 ==
    ASSUME NEW a, NEW b, NEW c, NEW d, NEW e, NEW f
    PROVE  SixSteps(a, b, c, d, e, f)
<1> DEFINE s == <<a, b, c, d, e>>
           t == <<a, b, c, d, e, f>>
           S == {a, b, c, d, e, f}
<1>1. s \in Seq(S) /\ t \in Seq(S) /\ Len(s) = 5 /\ Len(t) = 6 /\ f \in S
  OBVIOUS
<1>2. /\ s[1] = a /\ s[2] = b /\ s[3] = c /\ s[4] = d /\ s[5] = e
      /\ t[1] = a /\ t[2] = b /\ t[3] = c /\ t[4] = d /\ t[5] = e /\ t[6] = f
  OBVIOUS
<1> HIDE DEF s, t, S
<1>3. \A i \in 1 .. Len(s) : t[i] = s[i]
  BY <1>1, <1>2
<1>4. Len(t) = Len(s) + 1 /\ t[Len(s) + 1] = f
  BY <1>1, <1>2
<1>5. t = s \o <<f>>
  BY <1>1, <1>3, <1>4, OneMoreStep, Zenon
<1> QED
  BY <1>5, Zenon DEF s, t, SixSteps

(* A step x after what is set up in R, and what it sets up itself.         *)
Fine(x, R) == Needs(x) \subseteq R
Done(x) == IF x.wait = 0 THEN {x.name} ELSE {}

LEMMA OrderFirst ==
    ASSUME NEW x, NEW R, Fine(x, R), NEW P, P \subseteq Done(x)
    PROVE  InOrder(<<x>>, R, P)
<1>1. InOrder(<<x>>, R, {}) /\ (x.wait = 0 => InOrder(<<x>>, R, {x.name}))
  BY OrderOne DEF Fine
<1>2. InOrder(<<x>>, R, Done(x))
  BY <1>1 DEF Done
<1> QED
  BY <1>2, OrderWeaken

LEMMA OrderThen ==
    ASSUME NEW s, NEW R, NEW O, InOrder(s, R, O),
           NEW t, NEW Q, NEW P, InOrder(t, Q, P), Q \subseteq R \cup O,
           NEW W, W \subseteq O \cup P
    PROVE  InOrder(s \o t, R, W)
<1>1. InOrder(t, R \cup O, P)
  BY OrderWeaken
<1>2. InOrder(s \o t, R, O \cup P)
  BY <1>1, OrderConcat
<1> QED
  BY <1>2, OrderWeaken

LEMMA OrderNext ==
    ASSUME NEW s, NEW R, NEW O, InOrder(s, R, O), NEW x, Fine(x, R \cup O),
           NEW P, P \subseteq O \cup Done(x)
    PROVE  InOrder(s \o <<x>>, R, P)
<1>1. InOrder(<<x>>, R \cup O, Done(x))
  BY OrderFirst
<1> QED
  BY <1>1, OrderThen

LEMMA StepsFine ==
    ASSUME NEW n, NEW d, NEW R, d \subseteq R,
           n = "SIPI" => ForAps \subseteq R
    PROVE  /\ Fine(Sets(n, d), R) /\ Done(Sets(n, d)) = {n}
           /\ Fine(Tries(n, d), R) /\ Done(Tries(n, d)) = {n}
  BY DEF Fine, Sets, Tries, Done, Needs

LEMMA WaitsFine ==
    ASSUME NEW w \in Delays, NEW R, "acpi" \in R
    PROVE  Fine(Waits(w), R)
<1>2. Needs(Waits(w)) = {"acpi"}
  BY DEF Waits, Needs
<1> QED
  BY <1>2 DEF Fine

(* Steps written out one after the other.                                  *)
LEMMA OrderTwo ==
    ASSUME NEW R, NEW a, NEW b, Fine(a, R), Fine(b, R \cup Done(a)),
           NEW P, P \subseteq Done(a) \cup Done(b)
    PROVE  InOrder(<<a, b>>, R, P)
<1>1. InOrder(<<a>>, R, Done(a))
  BY OrderFirst
<1>2. <<a, b>> = <<a>> \o <<b>>
  BY Literal2
<1> QED
  BY <1>1, <1>2, OrderNext, Zenon

LEMMA OrderThree ==
    ASSUME NEW R, NEW a, NEW b, NEW c,
           Fine(a, R), Fine(b, R \cup Done(a)), Fine(c, R \cup (Done(a) \cup Done(b))),
           NEW P, P \subseteq Done(a) \cup Done(b) \cup Done(c)
    PROVE  InOrder(<<a, b, c>>, R, P)
<1>1. InOrder(<<a, b>>, R, Done(a) \cup Done(b))
  BY OrderTwo
<1>2. <<a, b, c>> = <<a, b>> \o <<c>>
  BY Literal3
<1> QED
  BY <1>1, <1>2, OrderNext, Zenon

LEMMA OrderFour ==
    ASSUME NEW R, NEW a, NEW b, NEW c, NEW d,
           Fine(a, R), Fine(b, R \cup Done(a)), Fine(c, R \cup (Done(a) \cup Done(b))),
           Fine(d, R \cup (Done(a) \cup Done(b) \cup Done(c))),
           NEW P, P \subseteq Done(a) \cup Done(b) \cup Done(c) \cup Done(d)
    PROVE  InOrder(<<a, b, c, d>>, R, P)
<1>1. InOrder(<<a, b, c>>, R, Done(a) \cup Done(b) \cup Done(c))
  BY OrderThree
<1>2. <<a, b, c, d>> = <<a, b, c>> \o <<d>>
  BY Literal4
<1> QED
  BY <1>1, <1>2, OrderNext, Zenon

LEMMA OrderFive ==
    ASSUME NEW R, NEW a, NEW b, NEW c, NEW d, NEW e,
           Fine(a, R), Fine(b, R \cup Done(a)), Fine(c, R \cup (Done(a) \cup Done(b))),
           Fine(d, R \cup (Done(a) \cup Done(b) \cup Done(c))),
           Fine(e, R \cup (Done(a) \cup Done(b) \cup Done(c) \cup Done(d))),
           NEW P, P \subseteq Done(a) \cup Done(b) \cup Done(c) \cup Done(d) \cup Done(e)
    PROVE  InOrder(<<a, b, c, d, e>>, R, P)
<1>1. InOrder(<<a, b, c, d>>, R, Done(a) \cup Done(b) \cup Done(c) \cup Done(d))
  BY OrderFour
<1>2. <<a, b, c, d, e>> = <<a, b, c, d>> \o <<e>>
  BY Literal5
<1> QED
  BY <1>1, <1>2, OrderNext, Zenon

LEMMA OrderSix ==
    ASSUME NEW R, NEW a, NEW b, NEW c, NEW d, NEW e, NEW f,
           Fine(a, R), Fine(b, R \cup Done(a)), Fine(c, R \cup (Done(a) \cup Done(b))),
           Fine(d, R \cup (Done(a) \cup Done(b) \cup Done(c))),
           Fine(e, R \cup (Done(a) \cup Done(b) \cup Done(c) \cup Done(d))),
           Fine(f, R \cup (Done(a) \cup Done(b) \cup Done(c) \cup Done(d) \cup Done(e))),
           NEW P,
           P \subseteq Done(a) \cup Done(b) \cup Done(c) \cup Done(d) \cup Done(e) \cup Done(f)
    PROVE  InOrder(<<a, b, c, d, e, f>>, R, P)
<1>1. InOrder(<<a, b, c, d, e>>, R,
              Done(a) \cup Done(b) \cup Done(c) \cup Done(d) \cup Done(e))
  BY OrderFive
<1>2. SixSteps(a, b, c, d, e, f)
  BY Literal6, Zenon
<1>3. <<a, b, c, d, e, f>> = <<a, b, c, d, e>> \o <<f>>
  BY <1>2, Zenon DEF SixSteps
<1> QED
  BY <1>1, <1>3, OrderNext, Zenon

(* The parts of the boot: what each needs and what it sets up.             *)
LEMMA CoreInOrder == InOrder(Core, {}, {"kvar", "boot_pgt", "gdt", "idt", "tss", "phys"})
<1>1. InOrder(KvarInit, {}, {"kvar"})
  BY StepsFine, OrderFirst DEF KvarInit
<1>2. InOrder(TemporaryPgt, {}, {"boot_pgt"})
  BY StepsFine, OrderFirst, Zenon DEF TemporaryPgt
<1>3. InOrder(GdtInit, {"boot_pgt"}, {"gdt"})
  BY StepsFine, OrderFirst, Zenon DEF GdtInit
<1>4. InOrder(IdtInit, {"boot_pgt"}, {"idt"})
  BY StepsFine, OrderFirst, Zenon DEF IdtInit
<1>5. InOrder(TssInit, {"gdt"}, {"tss"})
  BY StepsFine, OrderFirst, Zenon DEF TssInit
<1>6. InOrder(<<Sets("phys", {"kvar", "boot_pgt"})>>, {"kvar", "boot_pgt"}, {"phys"})
  BY StepsFine, OrderFirst, Zenon
<1>7. InOrder(KvarInit \o TemporaryPgt, {}, {"kvar", "boot_pgt"})
  BY <1>1, <1>2, OrderThen
<1>8. InOrder(KvarInit \o TemporaryPgt \o GdtInit, {}, {"kvar", "boot_pgt", "gdt"})
  BY <1>3, <1>7, OrderThen
<1>9. InOrder(KvarInit \o TemporaryPgt \o GdtInit \o IdtInit, {},
              {"kvar", "boot_pgt", "gdt", "idt"})
  BY <1>4, <1>8, OrderThen
<1>10. InOrder(KvarInit \o TemporaryPgt \o GdtInit \o IdtInit \o TssInit, {},
               {"kvar", "boot_pgt", "gdt", "idt", "tss"})
  BY <1>5, <1>9, OrderThen
<1> QED
  BY <1>6, <1>10, OrderThen DEF Core

LEMMA KernelPgtInOrder == InOrder(KernelPgt, {"phys"}, {"kmem"})
<1>1. InOrder(<<Tries("pgt_pages", {"phys"})>>, {"phys"}, {"pgt_pages"})
  BY StepsFine, OrderFirst, Zenon
<1>2. InOrder(KmemInit, {"phys", "pgt_pages"}, {"kmem_data"})
  BY StepsFine, OrderFirst, Zenon DEF KmemInit
<1>3. InOrder(<<Sets("mm", {"kmem_data", "pgt_pages"})>>, {"kmem_data", "pgt_pages"}, {"mm"})
  BY StepsFine, OrderFirst, Zenon
<1>4. InOrder(MemoryInit, {"phys", "pgt_pages"}, {"mm"})
  BY <1>2, <1>3, OrderThen DEF MemoryInit
<1> DEFINE a == Tries("kernel_block", {"mm"})
           b == Tries("wired_low", {"kernel_block"})
           c == Tries("wired_apic", {"kernel_block"})
           d == Tries("linear_block", {"mm"})
           e == Tries("linear_map", {"linear_block"})
           f == Sets("kmem", {"wired_low", "wired_apic", "linear_map"})
<1>5. /\ Fine(a, {"mm"}) /\ Done(a) = {"kernel_block"}
      /\ Fine(b, {"kernel_block"}) /\ Done(b) = {"wired_low"}
      /\ Fine(c, {"kernel_block"}) /\ Done(c) = {"wired_apic"}
      /\ Fine(d, {"mm"}) /\ Done(d) = {"linear_block"}
      /\ Fine(e, {"linear_block"}) /\ Done(e) = {"linear_map"}
      /\ Fine(f, {"wired_low", "wired_apic", "linear_map"}) /\ Done(f) = {"kmem"}
  BY StepsFine, Zenon
<1> HIDE DEF a, b, c, d, e, f
<1>6. InOrder(<<a, b, c, d, e, f>>, {"mm"}, {"kmem"})
  BY <1>5, OrderSix DEF Fine
<1>7. InOrder(<<Tries("pgt_pages", {"phys"})>> \o MemoryInit, {"phys"}, {"mm"})
  BY <1>1, <1>4, OrderThen
<1>8. KernelPgt = <<Tries("pgt_pages", {"phys"})>> \o MemoryInit \o <<a, b, c, d, e, f>>
  BY DEF KernelPgt, a, b, c, d, e, f
<1> QED
  BY <1>6, <1>7, <1>8, OrderThen

(* The caches of address spaces, processes and tasks.                      *)
LEMMA CachesInOrder ==
    InOrder(VmemInit, {"slab", "kmem"},
            {"vmem", "data", "pgt", "proc", "stack", "task", "procs"})
<1> DEFINE a == Cache("proc")
           b == Cache("fildes")
           c == Cache("stack")
           d == Cache("task")
           e == Cache("list")
           f == Tries("procs", {"kmem"})
<1>1. /\ Fine(a, {"slab"}) /\ Done(a) = {"proc"}
      /\ Fine(b, {"slab"}) /\ Done(b) = {"fildes"}
      /\ Fine(c, {"slab"}) /\ Done(c) = {"stack"}
      /\ Fine(d, {"slab"}) /\ Done(d) = {"task"}
      /\ Fine(e, {"slab"}) /\ Done(e) = {"list"}
      /\ Fine(f, {"kmem"}) /\ Done(f) = {"procs"}
  BY StepsFine, Zenon DEF Cache
<1> HIDE DEF a, b, c, d, e, f
<1>2. InOrder(<<a, b, c, d, e, f>>, {"slab", "kmem"}, {"proc", "stack", "task", "procs"})
  BY <1>1, OrderSix DEF Fine
<1>3. InOrder(TaskMgrInit, {"slab", "kmem"}, {"proc", "stack", "task", "procs"})
  BY <1>2 DEF TaskMgrInit, a, b, c, d, e, f
<1> DEFINE x == Cache("vmem")
           y == Cache("data")
           z == Cache("pgt")
<1>4. /\ Fine(x, {"slab"}) /\ Done(x) = {"vmem"}
      /\ Fine(y, {"slab"}) /\ Done(y) = {"data"}
      /\ Fine(z, {"slab"}) /\ Done(z) = {"pgt"}
  BY StepsFine, Zenon DEF Cache
<1> HIDE DEF x, y, z
<1>5. InOrder(<<x, y, z>>, {"slab", "kmem"}, {"vmem", "data", "pgt"})
  BY <1>4, OrderThree DEF Fine
<1>6. VmemInit = <<x, y, z>> \o TaskMgrInit
  BY DEF VmemInit, x, y, z
<1> QED
  BY <1>3, <1>5, <1>6, OrderThen

LEMMA MemoryInOrder ==
    InOrder(Memory, {"kmem", "phys"},
            {"acpi", "slab", "kmalloc", "vmem", "data", "pgt", "proc", "stack", "task", "procs"})
<1> DEFINE x == Tries("acpi_pages", {"kmem"})
           y == Tries("acpi", {"acpi_pages"})
           z == Tries("numa", {"phys", "acpi"})
<1>1. /\ Fine(x, {"kmem"}) /\ Done(x) = {"acpi_pages"}
      /\ Fine(y, {"acpi_pages"}) /\ Done(y) = {"acpi"}
      /\ Fine(z, {"phys", "acpi"}) /\ Done(z) = {"numa"}
  BY StepsFine, Zenon
<1> HIDE DEF x, y, z
<1>2. InOrder(<<x, y, z>>, {"kmem", "phys"}, {"acpi", "numa"})
  BY <1>1, OrderThree DEF Fine
<1>3. InOrder(SlabInit, {"kmem", "numa"}, {"slab"})
  BY StepsFine, OrderFirst, Zenon DEF SlabInit
<1>4. InOrder(KmallocInit, {"slab"}, {"kmalloc"})
  BY StepsFine, OrderFirst, Zenon DEF KmallocInit, Cache
<1>5. InOrder(<<x, y, z>> \o SlabInit, {"kmem", "phys"}, {"acpi", "slab"})
  BY <1>2, <1>3, OrderThen
<1>6. InOrder(<<x, y, z>> \o SlabInit \o KmallocInit, {"kmem", "phys"},
              {"acpi", "slab", "kmalloc"})
  BY <1>4, <1>5, OrderThen
<1>7. Memory = <<x, y, z>> \o SlabInit \o KmallocInit \o VmemInit
  BY DEF Memory, x, y, z
<1> QED
  BY <1>6, <1>7, CachesInOrder, OrderThen

LEMMA TasksInOrder ==
    InOrder(Tasks, {"kmalloc", "task", "stack", "kmem", "slab", "proc", "vmem", "data", "pgt",
                    "phys", "acpi", "procs"},
            {"console", "next_task"})
<1> DEFINE R == {"kmalloc", "task", "stack", "kmem", "slab", "proc", "vmem", "data", "pgt",
                 "phys", "acpi", "procs"}
           v == Tries("console_dev", {"kmalloc"})
           w == Tries("console", {"console_dev"})
           x == Cache("arch_task")
           y == Sets("next_task", {"init", "idle"})
<1>1. /\ Fine(v, {"kmalloc"}) /\ Done(v) = {"console_dev"}
      /\ Fine(w, {"console_dev"}) /\ Done(w) = {"console"}
      /\ Fine(x, {"slab"}) /\ Done(x) = {"arch_task"}
      /\ Fine(y, {"init", "idle"}) /\ Done(y) = {"next_task"}
  BY StepsFine, Zenon DEF Cache
<1>2. VconsoleInit = <<v, w>>
  BY DEF VconsoleInit
<1>3. Multitasking = InitNew \o FindInit \o <<x, y>>
  BY DEF Multitasking
<1> HIDE DEF v, w, x, y
<1>4. InOrder(VconsoleInit, {"kmalloc"}, {"console"})
  BY <1>1, <1>2, OrderTwo DEF Fine
<1>5. InOrder(IdleTask, {"task", "stack", "kmem"}, {"idle"})
  BY StepsFine, OrderFirst, Zenon DEF IdleTask
<1>6. InOrder(FindInit, {"kmem"}, {"initrd"})
  BY StepsFine, OrderFirst, Zenon DEF FindInit
<1>7. InOrder(ProcNew, {"proc", "vmem", "data", "pgt", "task", "stack", "phys"}, {"init_proc"})
  BY StepsFine, OrderFirst DEF ProcNew
<1>8. InOrder(<<Sets("init", {"initrd", "init_proc", "procs"})>>,
              {"initrd", "init_proc", "procs"}, {"init"})
  BY StepsFine, OrderFirst
<1>9. InOrder(<<x, y>>, {"slab", "init", "idle"}, {"next_task"})
  BY <1>1, OrderTwo DEF Fine
<1>10. InOrder(IoapicInit, {"acpi", "kmem"}, {})
  BY StepsFine, OrderFirst DEF IoapicInit
<1>11. InOrder(FindInit \o ProcNew, R, {"initrd", "init_proc"})
  <2>1. InOrder(FindInit, R, {"initrd"})
    BY <1>6, OrderWeaken
  <2> QED
    BY <1>7, <2>1, OrderThen
<1>12. InOrder(InitNew, R, {"init"})
  BY <1>8, <1>11, OrderThen DEF InitNew
<1>13. InOrder(InitNew \o FindInit, R, {"init"})
  BY <1>6, <1>12, OrderThen
<1>14. InOrder(Multitasking, R \cup {"idle"}, {"next_task"})
  <2>1. InOrder(InitNew \o FindInit, R \cup {"idle"}, {"init"})
    BY <1>13, OrderWeaken
  <2> QED
    BY <1>3, <1>9, <2>1, OrderThen
<1>15. InOrder(VconsoleInit, R, {"console"})
  BY <1>4, OrderWeaken
<1>16. InOrder(VconsoleInit \o IdleTask, R, {"console", "idle"})
  BY <1>5, <1>15, OrderThen
<1>17. InOrder(VconsoleInit \o IdleTask \o Multitasking, R, {"console", "next_task"})
  BY <1>14, <1>16, OrderThen
<1> QED
  BY <1>10, <1>17, OrderThen DEF Tasks

LEMMA KernelInitInOrder ==
    InOrder(KernelInit, {"kmem", "slab", "kmalloc"},
            {"event", "syscalls", "root", "devfs", "devfs_entries", "devfs_entry"})
<1> DEFINE R == {"kmem", "slab", "kmalloc"}
           u == Tries("syscalls", {"kmem"})
           v == Cache("event")
           a == Sets("modules", {})
           b == Cache("vfs_module")
           c == Cache("vfs_mount")
           d == Cache("vnode")
           e == Tries("rootfs", {"vnode"})
           x == Sets("devfs_entries", {})
           y == Cache("devfs_entry")
           z == Register("devfs")
<1>1. /\ Fine(u, {"kmem"}) /\ Done(u) = {"syscalls"}
      /\ Fine(v, {"slab"}) /\ Done(v) = {"event"}
  BY StepsFine, Zenon DEF Cache
<1>2. /\ Fine(a, {}) /\ Done(a) = {"modules"}
      /\ Fine(b, {"slab"}) /\ Done(b) = {"vfs_module"}
      /\ Fine(c, {"slab"}) /\ Done(c) = {"vfs_mount"}
      /\ Fine(d, {"slab"}) /\ Done(d) = {"vnode"}
      /\ Fine(e, {"vnode"}) /\ Done(e) = {"rootfs"}
  BY StepsFine, Zenon DEF Cache
<1>3. /\ Fine(x, {}) /\ Done(x) = {"devfs_entries"}
      /\ Fine(y, {"slab"}) /\ Done(y) = {"devfs_entry"}
      /\ Fine(z, {"modules", "vfs_module"}) /\ Done(z) = {"devfs"}
  BY StepsFine, Zenon DEF Cache, Register
<1>4. /\ KernelInit = <<u, v>> \o VfsInit \o InitramfsInit \o MountRoot \o DevfsInit
      /\ VfsInit = <<a, b, c, d, e>> /\ DevfsInit = <<x, y, z>>
  BY DEF KernelInit, VfsInit, DevfsInit
<1> HIDE DEF u, v, a, b, c, d, e, x, y, z
<1>5. InOrder(<<u, v>>, R, {"syscalls", "event"})
  BY <1>1, OrderTwo DEF Fine
<1>6. InOrder(VfsInit, {"slab"}, {"modules", "vfs_module", "vfs_mount", "rootfs"})
  BY <1>2, <1>4, OrderFive, Zenon DEF Fine
<1>7. InOrder(InitramfsInit, {"modules", "vfs_module"}, {"initramfs"})
  BY StepsFine, OrderFirst, Zenon DEF InitramfsInit, Register
<1>8. InOrder(MountRoot, {"initramfs", "rootfs", "vfs_mount", "kmalloc"}, {"root"})
  <2>1. InOrder(<<Tries("root_mount", {"initramfs", "rootfs", "vfs_mount"})>>,
                {"initramfs", "rootfs", "vfs_mount", "kmalloc"}, {"root_mount"})
    BY StepsFine, OrderFirst
  <2>2. InOrder(InitramfsMount, {"kmalloc"}, {"root_fs"})
    BY StepsFine, OrderFirst, Zenon DEF InitramfsMount
  <2>3. InOrder(<<Sets("root", {"root_mount", "root_fs"})>>, {"root_mount", "root_fs"}, {"root"})
    BY StepsFine, OrderFirst
  <2>4. InOrder(<<Tries("root_mount", {"initramfs", "rootfs", "vfs_mount"})>> \o InitramfsMount,
                {"initramfs", "rootfs", "vfs_mount", "kmalloc"}, {"root_mount", "root_fs"})
    BY <2>1, <2>2, OrderThen
  <2> QED
    BY <2>3, <2>4, OrderThen DEF MountRoot
<1>9. InOrder(DevfsInit, {"slab", "modules", "vfs_module"},
              {"devfs", "devfs_entries", "devfs_entry"})
  BY <1>3, <1>4, OrderThree, Zenon DEF Fine
<1>10. InOrder(<<u, v>> \o VfsInit, R,
               {"syscalls", "event", "modules", "vfs_module", "vfs_mount", "rootfs"})
  BY <1>5, <1>6, OrderThen
<1>11. InOrder(<<u, v>> \o VfsInit \o InitramfsInit, R,
               {"syscalls", "event", "modules", "vfs_module", "vfs_mount", "rootfs", "initramfs"})
  BY <1>7, <1>10, OrderThen
<1>12. InOrder(<<u, v>> \o VfsInit \o InitramfsInit \o MountRoot, R,
               {"syscalls", "event", "modules", "vfs_module", "root"})
  BY <1>8, <1>11, OrderThen
<1>13. InOrder(<<u, v>> \o VfsInit \o InitramfsInit \o MountRoot \o DevfsInit, R,
               {"event", "syscalls", "root", "devfs", "devfs_entries", "devfs_entry"})
  BY <1>9, <1>12, OrderThen
<1> QED
  BY <1>4, <1>13, Zenon

LEMMA EntriesInOrder == InOrder(Entries, {"kvar", "syscalls", "idt"}, {"syscall_entry", "gates"})
<1>1. InOrder(<<Sets("runqueue", {"kvar"})>>, {"kvar", "syscalls", "idt"}, {})
  BY StepsFine, OrderFirst
<1>2. InOrder(SyscallInit, {"syscalls"}, {"syscall_entry"})
  BY StepsFine, OrderFirst DEF SyscallInit
<1>3. InOrder(<<Sets("gates", {"idt"})>>, {"idt"}, {"gates"})
  BY StepsFine, OrderFirst
<1>4. InOrder(<<Sets("runqueue", {"kvar"})>> \o SyscallInit, {"kvar", "syscalls", "idt"},
              {"syscall_entry"})
  BY <1>1, <1>2, OrderThen
<1> QED
  BY <1>3, <1>4, OrderThen DEF Entries

LEMMA HandoverInOrder == InOrder(Handover, {"kmem", "acpi"}, {"apvar", "arch_acpi", "trampoline"})
<1> DEFINE x == Tries("apvar", {"kmem"})
           y == Sets("arch_acpi", {"acpi"})
           z == Tries("trampoline", {"kmem"})
<1>1. /\ Fine(x, {"kmem"}) /\ Done(x) = {"apvar"}
      /\ Fine(y, {"acpi"}) /\ Done(y) = {"arch_acpi"}
      /\ Fine(z, {"kmem"}) /\ Done(z) = {"trampoline"}
  BY StepsFine, Zenon
<1>2. Handover = <<x, y, z>>
  BY DEF Handover
<1> HIDE DEF x, y, z
<1> QED
  BY <1>1, <1>2, OrderThree DEF Fine

(* The start-up messages come when all is ready for the other processors.  *)
LEMMA StartApsInOrder == InOrder(StartAps, {"kmem", "acpi"} \cup ForAps, {})
<1> DEFINE R == {"kmem", "acpi"} \cup ForAps
           a == Sets("INIT", {"kmem"})
           b == Waits(Wait10ms)
           c == Sets("SIPI", {"kmem"})
           d == Waits(Wait200us)
<1>1. Fine(a, R) /\ Fine(c, R)
  BY StepsFine
<1>2. Fine(b, R) /\ Fine(d, R)
  BY WaitsFine DEF Delays
<1>3. StartAps = <<a, b, c, d, c, d>>
  BY DEF StartAps
<1> HIDE DEF R, a, b, c, d
<1> QED
  <2>1. InOrder(<<a, b, c, d, c, d>>, R, {})
    BY <1>1, <1>2, OrderSix DEF Fine
  <2> QED
    BY <1>3, <2>1 DEF R

LEMMA FinishInOrder == InOrder(Finish, {"console", "acpi", "gates", "next_task"}, {"timer"})
<1> DEFINE R == {"console", "acpi", "gates", "next_task"}
           a == Sets("welcome", {"console"})
           b == Waits(Probe)
           c == Sets("messages", {"console", "acpi"})
           d == Sets("timer", {"gates", "next_task"})
<1>1. Fine(a, R) /\ Fine(c, R) /\ Fine(d, R) /\ Done(d) = {"timer"}
  BY StepsFine
<1>2. Fine(b, R)
  BY WaitsFine DEF Delays
<1>3. Finish = <<a, b, c, d>>
  BY DEF Finish
<1> HIDE DEF R, a, b, c, d
<1> QED
  <2>1. InOrder(<<a, b, c, d>>, R, {"timer"})
    BY <1>1, <1>2, OrderFour DEF Fine
  <2> QED
    BY <1>3, <2>1 DEF R

(* All of the boot, from nothing to what the first program needs.          *)
LEMMA BootInOrder == InOrder(BootSteps, {}, UserNeeds)
<1> DEFINE C == {"kvar", "boot_pgt", "gdt", "idt", "tss", "phys"}
           M == {"acpi", "slab", "kmalloc", "vmem", "data", "pgt", "proc", "stack", "task",
                 "procs"}
           K == {"event", "syscalls", "root", "devfs", "devfs_entries", "devfs_entry"}
           H == {"apvar", "arch_acpi", "trampoline"}
<1>1. InOrder(Core \o KernelPgt, {}, C \cup {"kmem"})
  BY CoreInOrder, KernelPgtInOrder, OrderThen
<1>2. InOrder(Core \o KernelPgt \o Memory, {}, C \cup {"kmem"} \cup M)
  BY <1>1, MemoryInOrder, OrderThen
<1> DEFINE s == Core \o KernelPgt \o Memory \o Tasks
           O == C \cup {"kmem"} \cup M \cup {"console", "next_task"}
<1>3. InOrder(s, {}, O)
  BY <1>2, TasksInOrder, OrderThen
<1>4. BootSteps = s \o KernelInit \o Entries \o Handover \o StartAps \o Finish
  BY DEF BootSteps
<1>5. {"kmem", "slab", "kmalloc"} \subseteq O
  OBVIOUS
<1> HIDE DEF s
<1>6. InOrder(s \o KernelInit, {}, O \cup K)
  BY <1>3, KernelInitInOrder, OrderThen
<1>7. InOrder(s \o KernelInit \o Entries, {}, O \cup K \cup {"syscall_entry", "gates"})
  BY <1>6, EntriesInOrder, OrderThen
<1>8. InOrder(s \o KernelInit \o Entries \o Handover, {},
              O \cup K \cup {"syscall_entry", "gates"} \cup H)
  BY <1>7, HandoverInOrder, OrderThen
<1> DEFINE P == O \cup K \cup {"syscall_entry", "gates"} \cup H
<1>9. {"kmem", "acpi"} \cup ForAps \subseteq P
  BY DEF ForAps
<1>10. /\ {"console", "acpi", "gates", "next_task"} \subseteq P
       /\ UserNeeds \subseteq P \cup {"timer"}
  BY DEF UserNeeds
<1> HIDE DEF P
<1>11. InOrder(s \o KernelInit \o Entries \o Handover \o StartAps, {}, P)
  BY <1>8, <1>9, StartApsInOrder, OrderThen DEF P
<1> QED
  BY <1>4, <1>10, <1>11, FinishInOrder, OrderThen

(* What is ready is all that the boot has set up so far.  The bootstrap    *)
(* processor sleeps only at a wait, programs run only after the last step, *)
(* and a processor that was started finds all that it will need.           *)
ReadyInv ==
    /\ DOMAIN usec = Cpus
    /\ step \in 1 .. Len(BootSteps) + 1
    /\ Before(BootSteps, step) \subseteq ready
    /\ bsp = "user" => step > Len(BootSteps)
    /\ Asleep(Bsp) => step <= Len(BootSteps) /\ Now.wait # 0
    /\ \A a \in Aps : ap[a] \in DOMAIN ApNeeds => ForAps \subseteq ready

LEMMA ApNeedsAre ==
    /\ DOMAIN ApNeeds = {"started", "spin", "shared", "own", "start", "probe", "alloc", "idle"}
    /\ \A p \in DOMAIN ApNeeds : ApNeeds[p] \subseteq ForAps
  BY DEF ApNeeds, ForAps

LEMMA BootLength == Len(BootSteps) \in Nat
  BY BootInOrder, LenProperties DEF InOrder

(* What a step needs is ready when the step comes.                         *)
LEMMA NowReady ==
    ASSUME ReadyInv, step <= Len(BootSteps)
    PROVE  Needs(Now) \subseteq ready
<1>1. step \in 1 .. Len(BootSteps)
  BY BootLength DEF ReadyInv
<1> QED
  BY <1>1, BootInOrder DEF InOrder, ReadyInv, Now

LEMMA ReadyImplies == ReadyInv => ReadyWhenUsed
<1> SUFFICES ASSUME ReadyInv PROVE ReadyWhenUsed
  OBVIOUS
<1>1. step <= Len(BootSteps) => Now.needs \subseteq ready
  BY NowReady DEF Needs
<1>2. ASSUME bsp = "user" PROVE UserNeeds \subseteq ready
  <2>1. step = Len(BootSteps) + 1
    BY <1>2, BootLength DEF ReadyInv
  <2> QED
    BY <2>1, BootInOrder DEF InOrder, ReadyInv
<1>3. \A a \in Aps : ap[a] \in DOMAIN ApNeeds => ApNeeds[ap[a]] \subseteq ready
  BY ApNeedsAre DEF ReadyInv
<1> QED
  BY <1>1, <1>2, <1>3 DEF ReadyWhenUsed

LEMMA ReadyStart == Init => ReadyInv
<1> SUFFICES ASSUME Init PROVE ReadyInv
  OBVIOUS
<1>1. step \in 1 .. Len(BootSteps) + 1 /\ step = 1
  BY BootLength DEF Init
<1>2. Before(BootSteps, step) = {}
  BY <1>1 DEF Before
<1>3. ~Asleep(Bsp) /\ DOMAIN usec = Cpus
  BY SmpAssumption DEF Init, TimerInit, Asleep
<1>4. \A a \in Aps : ap[a] \notin DOMAIN ApNeeds
  BY ApNeedsAre DEF Init
<1> QED
  BY <1>1, <1>2, <1>3, <1>4 DEF ReadyInv, Init

(* What was set up before the next step: one thing more, or the same.      *)
LEMMA BeforeNext ==
    ASSUME NEW i \in 1 .. Len(BootSteps)
    PROVE  /\ Before(BootSteps, i + 1) \subseteq Before(BootSteps, i) \cup {BootSteps[i].name}
           /\ BootSteps[i].wait # 0 => Before(BootSteps, i + 1) \subseteq Before(BootSteps, i)
<1> DEFINE s == BootSteps
<1>1. i \in Nat /\ \A j \in 1 .. (i + 1) - 1 : j \in 1 .. i - 1 \/ j = i
  BY BootLength
<1> HIDE DEF s
<1>2. ASSUME NEW n \in Before(s, i + 1)
      PROVE  n \in Before(s, i) \/ (s[i].wait = 0 /\ n = s[i].name)
  <2>1. PICK j \in 1 .. (i + 1) - 1 : s[j].wait = 0 /\ n = s[j].name
    BY <1>2 DEF Before
  <2> QED
    BY <1>1, <2>1 DEF Before
<1> QED
  BY <1>2 DEF s

LEMMA ReadyKept ==
    ASSUME ReadyInv, UNCHANGED <<step, ready, bsp, ap>>,
           DOMAIN usec' = DOMAIN usec, usec'[Bsp] = usec[Bsp]
    PROVE  ReadyInv'
  BY DEF ReadyInv, Asleep, Now

LEMMA BootReady ==
    ASSUME StackInv, ReadyInv, BootStep
    PROVE  ReadyInv'
<1>1. /\ step \in 1 .. Len(BootSteps) /\ step' = step + 1 /\ Now.wait = 0
      /\ ready' = ready \cup {Now.name} /\ ap' \in Signalled /\ UNCHANGED <<bsp, usec>>
  <2>0. step \in 1 .. Len(BootSteps) + 1 /\ step <= Len(BootSteps)
    BY Zenon DEF BootStep, ReadyInv
  <2>1. step \in 1 .. Len(BootSteps)
    BY <2>0, BootLength
  <2> QED
    BY <2>1 DEF BootStep, timerVars
<1>2. step' \in 1 .. Len(BootSteps) + 1
  BY <1>1, BootLength
<1>3. Before(BootSteps, step + 1) \subseteq ready \cup {Now.name}
  BY <1>1, BeforeNext DEF ReadyInv, Now
<1>4. bsp # "user" /\ ~Asleep(Bsp)
  BY <1>1, Zenon DEF BootStep, ReadyInv
<1>5. ASSUME NEW a \in Aps, ap'[a] \in DOMAIN ApNeeds PROVE ForAps \subseteq ready
  <2>1. CASE Now.name = "SIPI"
    <3>1. ForAps \subseteq Needs(Now)
      BY <2>1 DEF Needs
    <3> QED
      BY <1>1, <3>1, NowReady DEF BootStep
  <2>2. CASE Now.name # "SIPI"
    <3>1. ap'[a] = ap[a] \/ ap'[a] = "wait"
      BY <1>1, <2>2 DEF Signalled
    <3>2. ap[a] \in DOMAIN ApNeeds
      BY <1>5, <3>1, ApNeedsAre
    <3> QED
      BY <3>2 DEF ReadyInv
  <2> QED
    BY <2>1, <2>2
<1> QED
  BY <1>1, <1>2, <1>3, <1>4, <1>5 DEF ReadyInv, Asleep

LEMMA AwakeReady ==
    ASSUME ReadyInv, BootAwake
    PROVE  ReadyInv'
<1>1. /\ step \in 1 .. Len(BootSteps) /\ Now.wait # 0 /\ step' = step + 1
      /\ UNCHANGED <<bsp, ready, ap>> /\ usec' = [usec EXCEPT ![Bsp] = 0]
  BY BootLength DEF BootAwake, SleepEnd, ReadyInv, apVars
<1>2. step' \in 1 .. Len(BootSteps) + 1
  BY <1>1, BootLength
<1>3. Before(BootSteps, step + 1) \subseteq ready
  BY <1>1, BeforeNext, Zenon DEF ReadyInv, Now
<1>4. bsp # "user"
  <2>1. bsp = "user" => step > Len(BootSteps)
    BY DEF ReadyInv
  <2> QED
    BY <1>1, <2>1, BootLength
<1>5. DOMAIN usec' = Cpus /\ usec'[Bsp] = 0
  BY <1>1, SmpAssumption DEF ReadyInv
<1> QED
  BY <1>1, <1>2, <1>3, <1>4, <1>5 DEF ReadyInv, Asleep

LEMMA WaitReady ==
    ASSUME ReadyInv, BootWait
    PROVE  ReadyInv'
<1>1. PICK n \in Delays : Now.wait = n /\ SleepStart(Bsp, n)
  BY DEF BootWait
<1>2. /\ n # 0 /\ step <= Len(BootSteps) /\ UNCHANGED <<step, bsp, ready, ap>>
      /\ usec' = [usec EXCEPT ![Bsp] = n]
  BY <1>1, BootAssumption DEF BootWait, SleepStart, bootVars, apVars
<1>3. DOMAIN usec' = Cpus
  BY <1>2 DEF ReadyInv
<1> QED
  BY <1>1, <1>2, <1>3, Zenon DEF ReadyInv, Now

(* A processor that moves was started before.                              *)
LEMMA ApReady ==
    ASSUME StackInv, ReadyInv, NEW a \in Aps, ApNext(a)
    PROVE  ReadyInv'
<1>0. a # Bsp /\ DOMAIN usec = Cpus /\ Bsp \in Cpus /\ a \in Cpus
  BY SmpAssumption DEF ReadyInv
<1>1. /\ UNCHANGED <<step, bsp, ready>>
      /\ ap[a] \in DOMAIN ApNeeds /\ \E p : ap' = [ap EXCEPT ![a] = p]
      /\ UNCHANGED usec \/ \E n : usec' = [usec EXCEPT ![a] = n]
  <2> USE ApNeedsAre DEF Goto, bootVars, timerVars
  <2>1. CASE Trampoline(a)
    BY <2>1, Zenon DEF Trampoline
  <2>2. CASE TakeStack(a)
    BY <2>2, Zenon DEF TakeStack
  <2>3. CASE OwnStack(a)
    BY <2>3, Zenon DEF OwnStack
  <2>4. CASE NoStack(a)
    BY <2>4, Zenon DEF NoStack
  <2>5. CASE ReleaseStack(a)
    BY <2>5, Zenon DEF ReleaseStack
  <2>6. CASE ApProbe(a)
    BY <2>6, Zenon DEF ApProbe, SleepStart
  <2>7. CASE ApAlloc(a)
    BY <2>7, Zenon DEF ApAlloc, SleepEnd
  <2>8. CASE ApEnds(a)
    BY <2>8, Zenon DEF ApEnds
  <2> QED
    BY <2>1, <2>2, <2>3, <2>4, <2>5, <2>6, <2>7, <2>8, Zenon DEF ApNext
<1>2. DOMAIN usec' = Cpus /\ usec'[Bsp] = usec[Bsp]
  BY <1>0, <1>1
<1>3. \A b \in Aps : ap'[b] \in DOMAIN ApNeeds => ap[b] \in DOMAIN ApNeeds
  BY <1>1 DEF StackInv
<1>4. \A b \in Aps : ap'[b] \in DOMAIN ApNeeds => ForAps \subseteq ready'
  BY <1>1, <1>3 DEF ReadyInv
<1> QED
  BY <1>1, <1>2, <1>4, Zenon DEF ReadyInv, Asleep, Now

LEMMA ReadyStep == StackInv /\ ReadyInv /\ [Next]_vars => ReadyInv'
<1> SUFFICES ASSUME StackInv, ReadyInv, [Next]_vars PROVE ReadyInv'
  OBVIOUS
<1>1. CASE BspNext
  <2>1. CASE Restart
    <3>1. step > Len(BootSteps) /\ bsp' = "user" /\ UNCHANGED <<step, ready, ap, usec>>
      BY <2>1 DEF Restart, timerVars, apVars
    <3> QED
      BY <3>1 DEF ReadyInv, Asleep, Now
  <2>2. CASE BootFails
    <3>1. bsp' = "panic" /\ UNCHANGED <<step, ready, ap, usec>>
      BY <2>2 DEF BootFails, timerVars, apVars
    <3> QED
      BY <3>1 DEF ReadyInv, Asleep, Now
  <2>3. CASE Fork \/ Nanosleep \/ Clock
    <3>1. UNCHANGED <<step, ready, bsp, ap, usec>>
      BY <2>3, Zenon DEF Fork, Nanosleep, Clock, Calls, timerVars, bootVars, apVars
    <3> QED
      BY <3>1, ReadyKept
  <2> QED
    BY <1>1, <2>1, <2>2, <2>3, BootReady, AwakeReady, WaitReady DEF BspNext
<1>2. CASE \E a \in Aps : ApNext(a)
  BY <1>2, ApReady
<1>3. CASE UNCHANGED vars \/ Time \/ \E c \in Cpus : Poll(c)
  <2>1. UNCHANGED <<step, ready, bsp, ap, usec>>
    BY <1>3, Zenon DEF vars, Time, Poll, TimerTick, SleepRead, timerVars, bootVars, apVars
  <2> QED
    BY <2>1, ReadyKept
<1>4. ASSUME NEW c \in Contexts, ContextNext(c) PROVE ReadyInv'
  <2>1. UNCHANGED <<step, ready, bsp, ap, usec>>
    BY <1>4, ContextKeepsAps DEF timerVars, bootVars, apVars
  <2> QED
    BY <2>1, ReadyKept
<1> QED
  BY <1>1, <1>2, <1>3, <1>4 DEF Next

(* Whatever a processor uses is set up when it uses it: bsp_start sets     *)
(* things up in an order in which each step finds what it needs, nobody is *)
(* started before all that ap_start needs is there, and the first program  *)
(* finds the whole kernel.                                                 *)
THEOREM ReadyIsWhenUsed == Spec => []ReadyWhenUsed
<1>1. Init => StackInv /\ ReadyInv
  BY StackStart, ReadyStart
<1>2. StackInv /\ ReadyInv /\ [Next]_vars => (StackInv /\ ReadyInv)'
  BY StackStep, ReadyStep
<1> QED
  BY <1>1, <1>2, ReadyImplies, PTL DEF Spec
=============================================================================
