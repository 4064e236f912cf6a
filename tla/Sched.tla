------------------------------- MODULE Sched -------------------------------
(***************************************************************************)
(* Processes and scheduling on the bootstrap processor: the process table, *)
(* the run queue, the kernel timer list and the local APIC timer handler   *)
(* (sched.c, task.c, syscall.c, arch/x86_64/arch.c and asm.S).             *)
(*                                                                         *)
(* Only local APIC 0 schedules processes (ksignal_clock returns at once    *)
(* on the others), a system call runs with interrupts masked (FMASK clears *)
(* IF) and interrupt gates mask them too.  So every handler below runs to  *)
(* completion and is one action; what interleaves is the order in which    *)
(* system calls and ticks happen.                                          *)
(*                                                                         *)
(* Time.  Only the difference e->jiffies - g_kvar->jiffies is ever used,   *)
(* so an event keeps that difference ("left") and jiffies++ ages every     *)
(* event by one; the state space is finite without a bound on jiffies.     *)
(*                                                                         *)
(* A definition that precedes the one it varies (ReadySetFromOne and the   *)
(* like) is a faulty variant used only to see a property fail.             *)
(***************************************************************************)
EXTENDS Integers, Sequences, FiniteSets

CONSTANTS ProcNr,    \* PROC_NR, the size of the process table
          Quantum,   \* the credit a task is queued with (10)
          MaxSleep,  \* bound: longest sleep, in ticks of 1/HZ second
          HZ,        \* ticks of the local APIC timer in a second (100)
          Nano       \* nanoseconds in a second (10^9)

ASSUME SchedAssumption ==
    /\ ProcNr \in Nat \ {0}
    /\ Quantum \in Nat \ {0}
    /\ MaxSleep \in Nat
    /\ HZ \in Nat \ {0} /\ Nano \in Nat \ {0}

Pids == 1 .. ProcNr
Idle == 0                       \* cpu->idle_task, which has no process
Tasks == Pids \cup {Idle}
States == {"NONE", "READY", "RUNNING", "BLOCKED", "TERMINATED"}
Events == [proc : Pids, left : Int]   \* timer_event_t, time left
Timespecs == [tv_sec : 0 .. MaxSleep, tv_nsec : 0 .. Nano - 1]

VARIABLES procs,     \* pids whose slot of g_kvar->procs is not NULL
          state,     \* task_t.state ("NONE": no task yet)
          credit,    \* task_t.credit of the process tasks
          runqueue,  \* g_kvar->runqueue, a list linked through task_t.next
          timer,     \* g_kvar->timer, a list of timer events
          cur,       \* cpu->cur_task
          asked      \* history: what a sleeper still misses of the time asked for

vars == <<procs, state, credit, runqueue, timer, cur, asked>>

-----------------------------------------------------------------------------
(* Once _prepare_multitasking has made init the next task and bsp_start    *)
(* has called task_restart: init is current, its state still READY and its *)
(* credit still 0, as task_alloc left them.                                *)
Init ==
    /\ procs = {1}
    /\ state = [t \in Tasks |-> IF t \in {1, Idle} THEN "READY" ELSE "NONE"]
    /\ credit = [p \in Pids |-> 0]
    /\ runqueue = << >>
    /\ timer = << >>
    /\ cur = 1
    /\ asked = [p \in Pids |-> 0]

(* A process can enter the kernel: it is current and was not left in the   *)
(* halt loop of sys_exit.                                                  *)
Executing(p) == cur = p /\ p \in procs /\ state[p] # "TERMINATED"

-----------------------------------------------------------------------------
(* sys_fork_c takes the first free slot; proc_fork and task_alloc make the *)
(* child READY with no credit.  When the table is full, or an allocation   *)
(* fails, the call returns -1 and nothing here changes.                    *)
FirstFree(pid) == pid \in Pids \ procs /\ \A p \in Pids \ procs : pid <= p

Fork(p) ==
    /\ Executing(p)
    /\ \E pid \in Pids :
          /\ FirstFree(pid)
          /\ procs' = procs \cup {pid}
          /\ state' = [state EXCEPT ![pid] = "READY"]
          /\ credit' = [credit EXCEPT ![pid] = 0]
    /\ UNCHANGED <<runqueue, timer, cur, asked>>

(* sys_nanosleep.  The search passes every event that fires later than the *)
(* new one, so the list runs from the latest event to the earliest.        *)
InsertPos(k, d) ==
    /\ \A i \in DOMAIN timer : i < k => d < timer[i].left
    /\ k <= Len(timer) => ~(d < timer[k].left)

InsertEvent(k, e) ==
    [i \in 1 .. Len(timer) + 1 |->
        IF i < k THEN timer[i] ELSE IF i = k THEN e ELSE timer[i - 1]]

(* After the insertion the caller blocks and task_switch leaves for the    *)
(* idle task: next_task is NULL, task_restart cleared it on the last tick. *)
Sleep(p, d) ==
    /\ Executing(p)
    /\ \E k \in 1 .. Len(timer) + 1 :
          /\ InsertPos(k, d)
          /\ timer' = InsertEvent(k, [proc |-> p, left |-> d])
    /\ state' = [state EXCEPT ![p] = "BLOCKED"]
    /\ cur' = Idle
    /\ UNCHANGED <<procs, credit, runqueue>>

(* The division drops what is left of a tick.  asked keeps the time itself *)
(* in units of which a second has HZ * Nano and a tick has Nano.           *)
Ticks(rqtp) == rqtp.tv_sec * HZ + (rqtp.tv_nsec * HZ) \div Nano

Nanosleep(p, rqtp) ==
    /\ Ticks(rqtp) <= MaxSleep
    /\ Sleep(p, Ticks(rqtp))
    /\ asked' = [asked EXCEPT ![p] = (rqtp.tv_sec * Nano + rqtp.tv_nsec) * HZ]

(* sys_exit marks the task and then executes hlt with interrupts masked.   *)
Exit(p) ==
    /\ Executing(p)
    /\ state' = [state EXCEPT ![p] = "TERMINATED"]
    /\ UNCHANGED <<procs, credit, runqueue, timer, cur, asked>>

Halted == state[cur] = "TERMINATED"

(* The loop at the end of sys_exit.                                        *)
HltLoop == Halted /\ UNCHANGED vars

-----------------------------------------------------------------------------
(* ksignal_clock: jiffies++ ages the events, then the loop fires those at  *)
(* the head that are due and stops at the first one that is not.           *)
AgeStopped(e) == e

Age(e) == [proc |-> e.proc, left |-> e.left - 1]

Aged == [i \in DOMAIN timer |-> Age(timer[i])]

DueEarly(e) == e.left <= 0

Due(e) == e.left < 0

FireCountOne(n) ==
    \/ n = 0 /\ (timer # << >> => ~Due(Aged[1]))
    \/ n = 1 /\ timer # << >> /\ Due(Aged[1])

FireCount(n) ==
    /\ n \in 0 .. Len(timer)
    /\ \A i \in 1 .. n : Due(Aged[i])
    /\ n < Len(timer) => ~Due(Aged[n + 1])

Woken(n) == {timer[i].proc : i \in 1 .. n}

(* The task states after the loop fired n events, the list that is left.   *)
StateAfterFire(n) ==
    [t \in Tasks |-> IF t \in Woken(n) THEN "READY" ELSE state[t]]

TimerNotAdvanced(n) == Aged

TimerAfterFire(n) == [i \in 1 .. Len(timer) - n |-> Aged[i + n]]

(* t->credit-- for the current task.  The idle task's credit starts at 0   *)
(* and only falls, so it is never positive and is not kept here.           *)
Charged == [p \in Pids |-> IF p = cur THEN credit[p] - 1 ELSE credit[p]]

KeepsCpu == cur # Idle /\ Charged[cur] > 0

(* sched_schedule pushes every READY process at the head of the queue in   *)
(* slot order, so the highest pid comes first, each with a full quantum.   *)
ReadySetFromOne(st) == {p \in procs \ {1} : st[p] = "READY"}

ReadySet(st) == {p \in procs : st[p] = "READY"}

Schedules(st) ==
    {q \in [1 .. Cardinality(ReadySet(st)) -> ReadySet(st)] :
        \A i, j \in DOMAIN q : i < j => q[i] > q[j]}

(* The high-level scheduler runs only when the queue is empty.             *)
RefillAlways == TRUE

Refill == runqueue = << >>

QueueAfterSchedule(st) ==
    IF Refill THEN {q \o runqueue : q \in Schedules(st)} ELSE {runqueue}

CreditAfterSchedule(st) ==
    [p \in Pids |-> IF Refill /\ p \in ReadySet(st) THEN Quantum
                                                    ELSE Charged[p]]

(* cpu->cur_task->task->state = TASK_READY, whatever the state was.        *)
PreemptedStillRunning(st) == st

Preempted(st) == [st EXCEPT ![cur] = "READY"]

(* A tick takes its length off the time that a sleeper still misses.       *)
AskedAfterTick ==
    [p \in Pids |-> IF state'[p] = "BLOCKED" /\ asked[p] >= Nano
                       THEN asked[p] - Nano ELSE 0]

(* The tick interrupts a task with interrupts enabled: ksignal_clock, then *)
(* task_restart, which resumes the current task or switches to next_task.  *)
TickKeep ==
    /\ ~Halted
    /\ KeepsCpu
    /\ \E n \in 0 .. Len(timer) :
          /\ FireCount(n)
          /\ state' = StateAfterFire(n)
          /\ timer' = TimerAfterFire(n)
    /\ credit' = Charged
    /\ asked' = AskedAfterTick
    /\ UNCHANGED <<procs, runqueue, cur>>

TickSwitch ==
    /\ ~Halted
    /\ ~KeepsCpu
    /\ \E n \in 0 .. Len(timer) :
        LET st == StateAfterFire(n) IN
          /\ FireCount(n)
          /\ timer' = TimerAfterFire(n)
          /\ credit' = CreditAfterSchedule(st)
          /\ \E q \in QueueAfterSchedule(st) :
                \/ /\ q = << >>
                   /\ cur' = Idle
                   /\ runqueue' = << >>
                   /\ state' = Preempted(st)
                \/ /\ q # << >>
                   /\ cur' = Head(q)
                   /\ runqueue' = Tail(q)
                   /\ state' = [Preempted(st) EXCEPT ![Head(q)] = "RUNNING"]
    /\ asked' = AskedAfterTick
    /\ UNCHANGED procs

Tick == TickKeep \/ TickSwitch

-----------------------------------------------------------------------------
Next ==
    \/ \E p \in Pids : Fork(p)
    \/ \E p \in Pids, rqtp \in Timespecs : Nanosleep(p, rqtp)
    \/ \E p \in Pids : Exit(p)
    \/ HltLoop
    \/ Tick

Spec == Init /\ [][Next]_vars

(* The local APIC timer is periodic (lapic_start_timer), so ticks keep     *)
(* arriving as long as interrupts are enabled.  Processes are not fair.    *)
FairSpec == Spec /\ WF_vars(Tick)
-----------------------------------------------------------------------------
(* Properties.                                                             *)

(* The variables keep the types of the C declarations.                     *)
TypeOK ==
    /\ procs \subseteq Pids
    /\ state \in [Tasks -> States]
    /\ credit \in [Pids -> Int]
    /\ runqueue \in Seq(Pids)
    /\ timer \in Seq(Events)
    /\ cur \in Tasks

(* No task but the current one is RUNNING: ksignal_clock takes the CPU     *)
(* away from the old task in the same tick in which it marks the new one,  *)
(* and a task that leaves through task_switch is BLOCKED first.            *)
RunningIsCurrent == \A p \in Pids : state[p] = "RUNNING" => cur = p

(* The run queue, linked through the tasks themselves, holds each task at  *)
(* most once, only READY ones, and never the current one: a second push of *)
(* a queued task would cut the list or close it into a cycle.              *)
QueueSound ==
    /\ \A i, j \in DOMAIN runqueue : i # j => runqueue[i] # runqueue[j]
    /\ \A i \in DOMAIN runqueue :
          /\ runqueue[i] \in procs
          /\ state[runqueue[i]] = "READY"
          /\ runqueue[i] # cur

(* A process is BLOCKED exactly as long as one event of the timer list     *)
(* refers to it: no sleeper is forgotten, and no event outlives the sleep  *)
(* it was made for and wakes the process out of a later one.               *)
SleepersHaveOneEvent ==
    /\ \A p \in Pids :
          state[p] = "BLOCKED" <=> \E i \in DOMAIN timer : timer[i].proc = p
    /\ \A i, j \in DOMAIN timer : timer[i].proc = timer[j].proc => i = j

(* The timer list runs from the latest event to the earliest, whatever the *)
(* order in which the processes fall asleep.                               *)
TimerLatestFirst ==
    \A i, j \in DOMAIN timer : i < j => timer[i].left >= timer[j].left

(* However the sleeps of the processes interleave, a sleeper is overdue by *)
(* at most MaxSleep ticks for every other process: each event can be held  *)
(* back by later ones at the head only once per sleeping process.          *)
OverdueBounded ==
    \A i \in DOMAIN timer : timer[i].left >= - (MaxSleep * (ProcNr - 1))

(* sys_nanosleep returns early by less than a tick, and never early if the *)
(* time asked for is a whole number of ticks: a sleeper is woken by a tick *)
(* only when less than a tick of its time is missing.  asked[p] is taken   *)
(* before the tick is charged: the first tick may come right after the     *)
(* call, so the ticks counted before this one are all that surely passed.  *)
EarlyByLessThanTick ==
    [][\A p \in Pids :
          state[p] = "BLOCKED" /\ state'[p] # "BLOCKED" => asked[p] < Nano]_vars

(* A sleeper is woken eventually, unless a process exits and stops the CPU *)
(* (sys_exit), although later sleepers hold back its event.                *)
SleeperWakes ==
    \A p \in Pids : state[p] = "BLOCKED" ~> (state[p] # "BLOCKED" \/ Halted)

(* Every READY process gets the CPU eventually, unless a process exits:    *)
(* the queue drains before it is filled again, so no one is passed over.   *)
ReadyRuns == \A p \in Pids : state[p] = "READY" ~> (cur = p \/ Halted)
=============================================================================
