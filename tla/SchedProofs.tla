---------------------------- MODULE SchedProofs ----------------------------
(***************************************************************************)
(* Proofs about the scheduler and the kernel timer of module Sched, for a  *)
(* process table, a quantum and sleeps of any size.                        *)
(***************************************************************************)
EXTENDS Sched, FiniteSetTheorems, TLAPS

(* What the run queue and the timer list rest on, besides the properties   *)
(* themselves: which tasks exist, that the current one is not asleep, that *)
(* the head of the timer list is never overdue and that neighbouring       *)
(* events are at most one longest sleep apart.                             *)
TasksExist ==
    /\ \A p \in Pids : p \in procs <=> state[p] # "NONE"
    /\ state[Idle] = "READY"
    /\ cur # Idle => cur \in procs

CurrentAwake == state[cur] # "BLOCKED"

HeadNotOverdue == timer # << >> => timer[1].left >= 0

SleepsShort == \A i \in DOMAIN timer : timer[i].left <= MaxSleep

GapsBounded ==
    \A i, j \in DOMAIN timer :
        i <= j => timer[i].left - timer[j].left <= MaxSleep * (j - i)

IInv ==
    /\ TypeOK
    /\ TasksExist
    /\ CurrentAwake
    /\ RunningIsCurrent
    /\ QueueSound
    /\ SleepersHaveOneEvent
    /\ TimerLatestFirst
    /\ HeadNotOverdue
    /\ SleepsShort
    /\ GapsBounded

(* The invariant holds once init runs.                                     *)
LEMMA InitIInv == Init => IInv
<1> SUFFICES ASSUME Init PROVE IInv
    OBVIOUS
<1> USE SchedAssumption DEF Init, Pids, Tasks, Idle, States
<1>1. TypeOK
    BY DEF TypeOK
<1>2. TasksExist /\ CurrentAwake /\ RunningIsCurrent
    BY DEF TasksExist, CurrentAwake, RunningIsCurrent
<1>3. QueueSound /\ SleepersHaveOneEvent
    BY DEF QueueSound, SleepersHaveOneEvent
<1>4. TimerLatestFirst /\ HeadNotOverdue /\ SleepsShort /\ GapsBounded
    BY DEF TimerLatestFirst, HeadNotOverdue, SleepsShort, GapsBounded
<1> QED BY <1>1, <1>2, <1>3, <1>4 DEF IInv

(* A child starts READY in a slot that was free, so it is neither queued   *)
(* nor asleep.                                                             *)
LEMMA ForkIInv == ASSUME IInv, NEW p \in Pids, Fork(p) PROVE IInv'
<1> USE SchedAssumption DEF Pids, Tasks, Idle, States
<1>1. PICK pid \in Pids :
        /\ pid \notin procs
        /\ procs' = procs \cup {pid}
        /\ state' = [state EXCEPT ![pid] = "READY"]
        /\ credit' = [credit EXCEPT ![pid] = 0]
        /\ UNCHANGED <<runqueue, timer, cur>>
    BY DEF Fork, FirstFree
<1>2. TypeOK'
    BY <1>1 DEF IInv, TypeOK
<1>3. state[pid] = "NONE"
    BY <1>1 DEF IInv, TasksExist
<1>4. TasksExist' /\ CurrentAwake' /\ RunningIsCurrent'
    BY <1>1, <1>3 DEF IInv, TypeOK, TasksExist, CurrentAwake, RunningIsCurrent
<1>5. QueueSound'
    BY <1>1, <1>3 DEF IInv, TypeOK, QueueSound
<1>6. SleepersHaveOneEvent'
    BY <1>1, <1>3 DEF IInv, TypeOK, SleepersHaveOneEvent
<1>7. TimerLatestFirst' /\ HeadNotOverdue' /\ SleepsShort' /\ GapsBounded'
    BY <1>1 DEF IInv, TimerLatestFirst, HeadNotOverdue, SleepsShort, GapsBounded
<1> QED BY <1>2, <1>4, <1>5, <1>6, <1>7 DEF IInv

(* Exit changes the state of the current task only.                        *)
LEMMA ExitIInv == ASSUME IInv, NEW p \in Pids, Exit(p) PROVE IInv'
<1> USE SchedAssumption DEF Pids, Tasks, Idle, States
<1>1. /\ cur = p /\ p \in procs
      /\ state' = [state EXCEPT ![p] = "TERMINATED"]
      /\ UNCHANGED <<procs, credit, runqueue, timer, cur>>
    BY DEF Exit, Executing
<1>2. TypeOK'
    BY <1>1 DEF IInv, TypeOK
<1>3. TasksExist' /\ CurrentAwake' /\ RunningIsCurrent'
    BY <1>1 DEF IInv, TypeOK, TasksExist, CurrentAwake, RunningIsCurrent
<1>4. QueueSound'
    BY <1>1 DEF IInv, TypeOK, QueueSound
<1>5. SleepersHaveOneEvent'
    BY <1>1 DEF IInv, TypeOK, CurrentAwake, SleepersHaveOneEvent
<1>6. TimerLatestFirst' /\ HeadNotOverdue' /\ SleepsShort' /\ GapsBounded'
    BY <1>1 DEF IInv, TimerLatestFirst, HeadNotOverdue, SleepsShort, GapsBounded
<1> QED BY <1>2, <1>3, <1>4, <1>5, <1>6 DEF IInv

(* Elements of a sequence, and functions that are sequences.               *)
LEMMA SeqElements ==
    ASSUME NEW S, NEW s \in Seq(S)
    PROVE  /\ Len(s) \in Nat
           /\ DOMAIN s = 1 .. Len(s)
           /\ \A i \in DOMAIN s : s[i] \in S
OBVIOUS

(* A function on 1 .. n is a sequence of length n.                         *)
LEMMA FunctionIsSeq ==
    ASSUME NEW S, NEW n \in Nat, NEW f \in [1 .. n -> S]
    PROVE  f \in Seq(S) /\ Len(f) = n
OBVIOUS

(* A timer event names a process and the ticks it still waits.             *)
LEMMA EventFields ==
    /\ \A e \in Events : e.proc \in Pids /\ e.left \in Int
    /\ \A p \in Pids, d \in Int : [proc |-> p, left |-> d] \in Events
BY DEF Events

(* Bounds of gaps, without products for the provers to look into.          *)
LEMMA GapFacts ==
    ASSUME NEW a \in Int
    PROVE  /\ MaxSleep * a \in Int
           /\ MaxSleep * (a + 1) = MaxSleep * a + MaxSleep
           /\ MaxSleep * 0 = 0
           /\ a >= 1 => MaxSleep <= MaxSleep * a
<1>1. MaxSleep \in Nat
    BY SchedAssumption
<1>2. MaxSleep * a = MaxSleep * (a - 1) + MaxSleep
    BY <1>1
<1>3. a >= 1 => a - 1 \in Nat
    OBVIOUS
<1>4. a >= 1 => MaxSleep * (a - 1) \in Nat
    BY <1>1, <1>3
<1>5. /\ MaxSleep * a \in Int
      /\ MaxSleep * (a + 1) = MaxSleep * a + MaxSleep
      /\ MaxSleep * 0 = 0
    BY <1>1
<1> QED BY <1>1, <1>2, <1>4, <1>5

(* A gap within a bound is within every larger one.                        *)
LEMMA GapWidens ==
    ASSUME NEW x \in Int, NEW y \in Int, NEW g \in Int, NEW h \in Int,
           x - y <= g, g <= h
    PROVE  x - y <= h
OBVIOUS

(* The list after an event e went into place k, where sys_nanosleep's      *)
(* search stopped.                                                         *)
LEMMA InsertShape ==
    ASSUME IInv, NEW d \in 0 .. MaxSleep, NEW e \in Events, e.left = d,
           NEW k \in 1 .. Len(timer) + 1, InsertPos(k, d),
           timer' = InsertEvent(k, e)
    PROVE  /\ timer' \in Seq(Events)
           /\ DOMAIN timer' = 1 .. Len(timer) + 1
           /\ \A i \in DOMAIN timer' : timer'[i].left \in Int
           /\ \A i \in DOMAIN timer' : i < k => /\ i \in DOMAIN timer
                                                /\ timer'[i] = timer[i]
                                                /\ d < timer'[i].left
           /\ timer'[k] = e
           /\ \A i \in DOMAIN timer' : i > k => /\ i - 1 \in DOMAIN timer
                                                /\ timer'[i] = timer[i - 1]
                                                /\ k \in DOMAIN timer
                                                /\ d >= timer[k].left
<1>1. MaxSleep \in Nat
    BY SchedAssumption
<1>2. /\ Len(timer) \in Nat /\ DOMAIN timer = 1 .. Len(timer)
      /\ \A i \in DOMAIN timer : timer[i] \in Events
    BY SeqElements DEF IInv, TypeOK
<1>3. /\ DOMAIN timer' = 1 .. Len(timer) + 1
      /\ \A i \in 1 .. Len(timer) + 1 :
            timer'[i] = IF i < k THEN timer[i] ELSE IF i = k THEN e ELSE timer[i - 1]
    BY <1>2 DEF InsertEvent
<1>4. timer' \in [1 .. Len(timer) + 1 -> Events]
    BY <1>2 DEF InsertEvent
<1>5. timer' \in Seq(Events)
    BY <1>2, <1>4, FunctionIsSeq
<1>6. \A i \in DOMAIN timer' : timer'[i].left \in Int
    BY <1>3, <1>4, EventFields
<1>7. \A i \in DOMAIN timer : timer[i].left \in Int
    BY <1>2, EventFields
<1>8. /\ \A i \in DOMAIN timer' : i < k => i \in DOMAIN timer /\ timer'[i] = timer[i]
      /\ timer'[k] = e
      /\ \A i \in DOMAIN timer' : i > k => /\ i - 1 \in DOMAIN timer
                                           /\ timer'[i] = timer[i - 1]
                                           /\ k \in DOMAIN timer
    BY <1>2, <1>3
<1>9. \A i \in DOMAIN timer' : i < k => d < timer'[i].left
    BY <1>8 DEF InsertPos
<1>10. k \in DOMAIN timer => d >= timer[k].left
    BY <1>1, <1>2, <1>7 DEF InsertPos
<1> QED BY <1>3, <1>5, <1>6, <1>8, <1>9, <1>10

(* The timer list keeps its type, order and gaps when sys_nanosleep puts   *)
(* an event of at most MaxSleep ticks into its place.                      *)
LEMMA InsertKeepsTimer ==
    ASSUME IInv, NEW d \in 0 .. MaxSleep, NEW e \in Events, e.left = d,
           NEW k \in 1 .. Len(timer) + 1, InsertPos(k, d),
           timer' = InsertEvent(k, e)
    PROVE  /\ TimerLatestFirst' /\ HeadNotOverdue'
           /\ SleepsShort' /\ GapsBounded'
<1>1. MaxSleep \in Int /\ d \in Int /\ 0 <= d /\ d <= MaxSleep
    BY SchedAssumption
<1>2. /\ Len(timer) \in Nat /\ DOMAIN timer = 1 .. Len(timer) /\ k \in Int
      /\ \A i \in DOMAIN timer : timer[i].left \in Int
    BY SeqElements, EventFields DEF IInv, TypeOK
<1>3. /\ DOMAIN timer' = 1 .. Len(timer) + 1
      /\ \A i \in DOMAIN timer' : i \in Int /\ timer'[i].left \in Int
    BY <1>2, InsertShape
<1>4. \A i \in DOMAIN timer' : i < k => /\ i \in DOMAIN timer
                                        /\ timer'[i].left = timer[i].left
                                        /\ d < timer[i].left
    BY InsertShape
<1>5. timer'[k].left = d /\ k \in DOMAIN timer'
    BY <1>3, InsertShape
<1>6. \A i \in DOMAIN timer' : i > k => /\ i - 1 \in DOMAIN timer
                                        /\ timer'[i].left = timer[i - 1].left
                                        /\ k \in DOMAIN timer
                                        /\ d >= timer[k].left
    BY InsertShape
<1>7. TimerLatestFirst'
    <2> SUFFICES ASSUME NEW i \in DOMAIN timer', NEW j \in DOMAIN timer', i < j
                 PROVE  timer'[i].left >= timer'[j].left
        BY DEF TimerLatestFirst
    <2>1. \A a, b \in DOMAIN timer : a < b => timer[a].left >= timer[b].left
        BY DEF IInv, TimerLatestFirst
    <2>2. CASE j < k
        BY <1>2, <1>3, <1>4, <2>1, <2>2
    <2>3. CASE j = k
        BY <1>1, <1>2, <1>3, <1>4, <1>5, <2>3
    <2>4. CASE j > k
        <3>1. /\ j - 1 \in DOMAIN timer /\ timer'[j].left = timer[j - 1].left
              /\ k \in DOMAIN timer /\ d >= timer[k].left
              /\ timer[k].left >= timer[j - 1].left
            <4>1. /\ j - 1 \in DOMAIN timer /\ timer'[j].left = timer[j - 1].left
                  /\ k \in DOMAIN timer /\ d >= timer[k].left
                BY <1>6, <2>4
            <4>2. k = j - 1 \/ k < j - 1
                BY <1>2, <1>3, <2>4
            <4>3. timer[k].left \in Int
                BY <1>2, <4>1
            <4> QED
                BY <2>1, <4>1, <4>2, <4>3
        <3>2. CASE i < k
            BY <1>1, <1>2, <1>3, <1>4, <3>1, <3>2
        <3>3. CASE i = k
            BY <1>1, <1>2, <1>5, <3>1, <3>3
        <3>4. CASE i > k
            BY <1>2, <1>3, <1>6, <2>1, <3>1, <3>4
        <3> QED BY <1>2, <1>3, <3>2, <3>3, <3>4
    <2> QED BY <1>2, <1>3, <2>2, <2>3, <2>4
<1>8. HeadNotOverdue'
    <2>1. CASE k = 1
        BY <1>1, <1>5, <2>1 DEF HeadNotOverdue
    <2>2. CASE 1 < k
        BY <1>1, <1>2, <1>3, <1>4, <2>2 DEF HeadNotOverdue
    <2> QED BY <2>1, <2>2
<1>9. SleepsShort'
    <2> SUFFICES ASSUME NEW i \in DOMAIN timer'
                 PROVE  timer'[i].left <= MaxSleep
        BY DEF SleepsShort
    <2>1. \A a \in DOMAIN timer : timer[a].left <= MaxSleep
        BY DEF IInv, SleepsShort
    <2> QED BY <1>1, <1>2, <1>3, <1>4, <1>5, <1>6, <2>1
<1>10. GapsBounded'
    <2> SUFFICES ASSUME NEW i \in DOMAIN timer', NEW j \in DOMAIN timer', i <= j
                 PROVE  timer'[i].left - timer'[j].left <= MaxSleep * (j - i)
        BY DEF GapsBounded
    <2>1. \A a, b \in DOMAIN timer :
             a <= b => timer[a].left - timer[b].left <= MaxSleep * (b - a)
        BY DEF IInv, GapsBounded
    <2>2. i \in Int /\ j \in Int /\ j - i \in Int
        BY <1>3
    <2>3. MaxSleep * (j - i) \in Int
        BY <2>2, GapFacts
    <2>4. MaxSleep * ((j - 1) - i) \in Int
          /\ MaxSleep * (j - i) = MaxSleep * ((j - 1) - i) + MaxSleep
        <3>1. (j - 1) - i \in Int /\ ((j - 1) - i) + 1 = j - i
            BY <2>2
        <3> QED BY <3>1, GapFacts
    <2>5. CASE i = j
        <3>1. j - i = 0 /\ timer'[i].left - timer'[j].left = 0
            BY <1>3, <2>2, <2>5
        <3>2. MaxSleep * 0 = 0
            BY GapFacts
        <3> QED BY <3>1, <3>2
    <2>6. CASE j < k
        <3>1. i < k
            BY <1>2, <2>2, <2>6
        <3>2. i \in DOMAIN timer /\ j \in DOMAIN timer
              /\ timer'[i].left = timer[i].left /\ timer'[j].left = timer[j].left
            BY <1>4, <2>6, <3>1
        <3> QED BY <2>1, <3>2
    <2>7. CASE i > k
        <3>1. j > k /\ i - 1 <= j - 1 /\ (j - 1) - (i - 1) = j - i
            BY <1>2, <2>2, <2>7
        <3>2. /\ i - 1 \in DOMAIN timer /\ j - 1 \in DOMAIN timer
              /\ timer'[i].left = timer[i - 1].left
              /\ timer'[j].left = timer[j - 1].left
            BY <1>6, <2>7, <3>1
        <3>3. timer[i - 1].left - timer[j - 1].left <= MaxSleep * ((j - 1) - (i - 1))
            BY <2>1, <3>1, <3>2
        <3> QED BY <3>1, <3>2, <3>3
    <2>8. CASE i < k /\ k < j
        <3>1. /\ i \in DOMAIN timer /\ timer'[i].left = timer[i].left
              /\ j - 1 \in DOMAIN timer /\ timer'[j].left = timer[j - 1].left
            BY <1>4, <1>6, <2>8
        <3>2. i <= j - 1
            BY <1>2, <2>2, <2>8
        <3>3. timer[i].left - timer[j - 1].left <= MaxSleep * ((j - 1) - i)
            BY <2>1, <3>1, <3>2
        <3>4. MaxSleep * ((j - 1) - i) <= MaxSleep * (j - i)
            BY <1>1, <2>4
        <3>5. timer[i].left \in Int /\ timer[j - 1].left \in Int
            BY <1>2, <3>1
        <3> QED BY <3>1, <3>3, <3>4, <3>5, <2>3, <2>4, GapWidens
    <2>9. CASE i < k /\ j = k
        <3>1. /\ timer'[i].left = timer[i].left /\ timer'[j].left = d
              /\ timer[i].left \in Int /\ timer[i].left <= MaxSleep
            BY <1>2, <1>4, <1>5, <2>9 DEF IInv, SleepsShort
        <3>2. j - i >= 1
            BY <1>2, <2>2, <2>9
        <3>3. MaxSleep <= MaxSleep * (j - i)
            BY <2>2, <3>2, GapFacts
        <3>4. timer[i].left - d <= MaxSleep
            BY <1>1, <3>1
        <3> QED BY <1>1, <2>3, <3>1, <3>3, <3>4, GapWidens
    <2>10. CASE i = k /\ k < j
        <3>1. /\ k \in DOMAIN timer /\ timer'[i].left = d
              /\ j - 1 \in DOMAIN timer /\ timer'[j].left = timer[j - 1].left
            BY <1>5, <1>6, <2>10
        <3>2. k <= j - 1 /\ (j - 1) - (k - 1) = j - i /\ k - 1 <= j - 1
            BY <1>2, <2>2, <2>10
        <3>3. timer[k].left \in Int /\ timer[j - 1].left \in Int
            BY <1>2, <3>1
        <3>4. CASE k = 1
            <4>1. timer[1].left >= 0
                BY <1>2, <3>1, <3>4 DEF IInv, HeadNotOverdue
            <4>2. timer[k].left - timer[j - 1].left <= MaxSleep * ((j - 1) - i)
                BY <2>1, <2>10, <3>1, <3>2
            <4>3. \A m \in Int : timer[k].left - timer[j - 1].left <= m
                                    => d - timer[j - 1].left <= m + MaxSleep
                BY <1>1, <3>3, <3>4, <4>1
            <4> QED BY <2>4, <3>1, <4>2, <4>3
        <3>5. CASE k > 1
            <4>1. k - 1 \in DOMAIN timer /\ k - 1 \in DOMAIN timer' /\ k - 1 < k
                BY <1>2, <1>3, <3>1, <3>5
            <4>2. d < timer[k - 1].left /\ timer[k - 1].left \in Int
                BY <1>2, <1>4, <4>1
            <4>3. timer[k - 1].left - timer[j - 1].left <= MaxSleep * (j - i)
                BY <2>1, <3>1, <3>2, <4>1
            <4>4. \A m \in Int : timer[k - 1].left - timer[j - 1].left <= m
                                    => d - timer[j - 1].left <= m
                BY <1>1, <3>3, <4>2
            <4> QED BY <2>3, <3>1, <4>3, <4>4
        <3> QED BY <1>2, <3>4, <3>5
    <2> QED BY <1>2, <2>2, <2>5, <2>6, <2>7, <2>8, <2>9, <2>10
<1> QED BY <1>7, <1>8, <1>9, <1>10

(* The caller is awake, so no event refers to it before the insertion.     *)
LEMMA SleepIInv ==
    ASSUME IInv, NEW p \in Pids, NEW d \in 0 .. MaxSleep, Sleep(p, d)
    PROVE  IInv'
<1> DEFINE e == [proc |-> p, left |-> d]
<1>1. PICK k \in 1 .. Len(timer) + 1 : InsertPos(k, d) /\ timer' = InsertEvent(k, e)
    BY DEF Sleep
<1>2. /\ cur = p /\ p \in procs
      /\ state' = [state EXCEPT ![p] = "BLOCKED"]
      /\ cur' = Idle
      /\ UNCHANGED <<procs, credit, runqueue>>
    BY DEF Sleep, Executing
<1>3. e \in Events /\ e.left = d /\ e.proc = p
    BY SchedAssumption, EventFields
<1> HIDE DEF e
<1>4. /\ timer' \in Seq(Events)
      /\ DOMAIN timer' = 1 .. Len(timer) + 1
      /\ \A i \in DOMAIN timer' : i < k => i \in DOMAIN timer /\ timer'[i] = timer[i]
      /\ timer'[k] = e
      /\ \A i \in DOMAIN timer' : i > k => /\ i - 1 \in DOMAIN timer
                                           /\ timer'[i] = timer[i - 1]
    BY <1>1, <1>3, InsertShape
<1>5. TimerLatestFirst' /\ HeadNotOverdue' /\ SleepsShort' /\ GapsBounded'
    BY <1>1, <1>3, InsertKeepsTimer
<1>6. state[p] # "BLOCKED" /\ p # Idle
    BY <1>2 DEF IInv, CurrentAwake, Pids, Idle
<1>7. TypeOK'
    BY <1>2, <1>4 DEF IInv, TypeOK, Tasks, States
<1>8. TasksExist' /\ CurrentAwake' /\ RunningIsCurrent'
    BY <1>2, <1>6 DEF IInv, TypeOK, TasksExist, CurrentAwake, RunningIsCurrent,
                      Tasks, Pids, Idle
<1>9. QueueSound'
    BY <1>2, <1>6 DEF IInv, TypeOK, QueueSound, TasksExist, Tasks, Pids, Idle
<1>10. SleepersHaveOneEvent'
    <2>1. Len(timer) \in Nat /\ DOMAIN timer = 1 .. Len(timer) /\ k \in Int
        BY SeqElements DEF IInv, TypeOK
    <2>2. \A i \in DOMAIN timer : timer[i].proc # p
        BY <1>6 DEF IInv, SleepersHaveOneEvent
    <2>3. \A i, j \in DOMAIN timer : timer[i].proc = timer[j].proc => i = j
        BY DEF IInv, SleepersHaveOneEvent
    <2>4. \A i \in DOMAIN timer' : timer'[i].proc = p <=> i = k
        BY <1>3, <1>4, <2>1, <2>2
    <2>5. ASSUME NEW i \in DOMAIN timer', NEW j \in DOMAIN timer',
                 timer'[i].proc = timer'[j].proc
          PROVE  i = j
        <3>1. CASE i = k \/ j = k
            BY <2>4, <2>5, <3>1
        <3>2. CASE i < k /\ j < k
            BY <1>4, <2>3, <2>5, <3>2
        <3>3. CASE i > k /\ j > k
            <4>1. i - 1 = j - 1
                BY <1>4, <2>3, <2>5, <3>3
            <4> QED BY <4>1, <1>4, <2>1
        <3>4. CASE i < k /\ j > k
            <4>1. i = j - 1
                BY <1>4, <2>3, <2>5, <3>4
            <4> QED BY <4>1, <1>4, <2>1, <3>4
        <3>5. CASE i > k /\ j < k
            <4>1. i - 1 = j
                BY <1>4, <2>3, <2>5, <3>5
            <4> QED BY <4>1, <1>4, <2>1, <3>5
        <3> QED BY <1>4, <2>1, <3>1, <3>2, <3>3, <3>4, <3>5
    <2>6. ASSUME NEW i \in DOMAIN timer
          PROVE  \E j \in DOMAIN timer' : timer'[j] = timer[i]
        <3>1. CASE i < k
            BY <1>4, <2>1, <3>1
        <3>2. CASE i >= k
            <4>1. i + 1 \in DOMAIN timer' /\ i + 1 > k /\ (i + 1) - 1 = i
                BY <1>4, <2>1, <3>2
            <4> QED BY <1>4, <4>1
        <3> QED BY <2>1, <3>1, <3>2
    <2>7. ASSUME NEW i \in DOMAIN timer', i # k
          PROVE  \E j \in DOMAIN timer : timer'[i] = timer[j]
        BY <1>4, <2>1, <2>7
    <2>8. \A q \in Pids : q # p => state'[q] = state[q]
        BY <1>2 DEF IInv, TypeOK, Tasks
    <2>9. \A q \in Pids :
             state[q] = "BLOCKED" <=> \E i \in DOMAIN timer : timer[i].proc = q
        BY DEF IInv, SleepersHaveOneEvent
    <2>10. ASSUME NEW q \in Pids, q # p
           PROVE  state'[q] = "BLOCKED" <=> \E i \in DOMAIN timer' : timer'[i].proc = q
        <3>1. ASSUME NEW i \in DOMAIN timer, timer[i].proc = q
              PROVE  \E j \in DOMAIN timer' : timer'[j].proc = q
            BY <2>6, <3>1
        <3>2. ASSUME NEW i \in DOMAIN timer', timer'[i].proc = q
              PROVE  \E j \in DOMAIN timer : timer[j].proc = q
            BY <2>4, <2>7, <2>10, <3>2
        <3> QED BY <2>8, <2>9, <2>10, <3>1, <3>2
    <2>11. state'[p] = "BLOCKED" /\ \E i \in DOMAIN timer' : timer'[i].proc = p
        <3>1. k \in DOMAIN timer'
            BY <1>4, <2>1
        <3> QED BY <1>2, <2>4, <3>1 DEF IInv, TypeOK, Tasks
    <2> QED BY <2>5, <2>10, <2>11 DEF SleepersHaveOneEvent
<1> QED BY <1>5, <1>7, <1>8, <1>9, <1>10 DEF IInv

(* jiffies++ takes one tick from an event and leaves its process alone.    *)
LEMMA AgedEvent ==
    ASSUME NEW e \in Events
    PROVE  Age(e) \in Events /\ Age(e).proc = e.proc /\ Age(e).left = e.left - 1
BY DEF Events, Age

(* What the firing loop of ksignal_clock does to the timer list and to the *)
(* states: it removes the first n events and wakes their processes.        *)
LEMMA FireTimer ==
    ASSUME IInv, NEW n \in 0 .. Len(timer), FireCount(n),
           timer' = TimerAfterFire(n)
    PROVE  /\ timer' \in Seq(Events)
           /\ DOMAIN timer' = 1 .. Len(timer) - n
           /\ \A i \in DOMAIN timer' : /\ i + n \in DOMAIN timer
                                       /\ timer'[i].proc = timer[i + n].proc
                                       /\ timer'[i].left = timer[i + n].left - 1
           /\ TimerLatestFirst' /\ HeadNotOverdue' /\ SleepsShort' /\ GapsBounded'
<1>1. /\ Len(timer) \in Nat /\ DOMAIN timer = 1 .. Len(timer) /\ n \in Int
      /\ \A i \in DOMAIN timer : /\ timer[i] \in Events
                                 /\ timer[i].proc \in Pids /\ timer[i].left \in Int
    BY SeqElements, EventFields DEF IInv, TypeOK
<1>2. \A i \in DOMAIN timer : /\ Aged[i] \in Events
                              /\ Aged[i].proc = timer[i].proc
                              /\ Aged[i].left = timer[i].left - 1
    <2> SUFFICES ASSUME NEW i \in DOMAIN timer
                 PROVE  /\ Aged[i] \in Events
                        /\ Aged[i].proc = timer[i].proc
                        /\ Aged[i].left = timer[i].left - 1
        OBVIOUS
    <2>1. Aged[i] = Age(timer[i])
        BY DEF Aged
    <2> QED BY <1>1, <2>1, AgedEvent
<1>3. /\ DOMAIN timer' = 1 .. Len(timer) - n
      /\ \A i \in DOMAIN timer' : /\ i \in Int /\ i + n \in DOMAIN timer
                                  /\ timer'[i] = Aged[i + n]
    BY <1>1 DEF TimerAfterFire
<1>4. timer' \in Seq(Events)
    <2>1. Len(timer) - n \in Nat
        BY <1>1
    <2>2. timer' \in [1 .. Len(timer) - n -> Events]
        BY <1>1, <1>2 DEF TimerAfterFire
    <2> QED BY <2>1, <2>2, FunctionIsSeq
<1>5. \A i \in DOMAIN timer' : /\ timer'[i].proc = timer[i + n].proc
                               /\ timer'[i].left = timer[i + n].left - 1
    BY <1>2, <1>3
<1>6. TimerLatestFirst'
    <2> SUFFICES ASSUME NEW i \in DOMAIN timer', NEW j \in DOMAIN timer', i < j
                 PROVE  timer'[i].left >= timer'[j].left
        BY DEF TimerLatestFirst
    <2>1. i + n < j + n
        BY <1>1, <1>3
    <2>2. timer[i + n].left >= timer[j + n].left
        BY <1>3, <2>1 DEF IInv, TimerLatestFirst
    <2>3. timer[i + n].left \in Int /\ timer[j + n].left \in Int
        BY <1>1, <1>3
    <2> QED BY <1>5, <2>2, <2>3
<1>7. HeadNotOverdue'
    <2> SUFFICES ASSUME timer' # << >> PROVE timer'[1].left >= 0
        BY DEF HeadNotOverdue
    <2>1. 1 \in DOMAIN timer' /\ n + 1 \in DOMAIN timer /\ n < Len(timer)
        <3>1. Len(timer') = Len(timer) - n /\ Len(timer') # 0
            BY <1>1, <1>3, <1>4
        <3> QED BY <3>1, <1>1, <1>3
    <2>2. ~ (Aged[n + 1].left < 0)
        <3>1. ~ Due(Aged[n + 1])
            BY <2>1 DEF FireCount
        <3> QED BY <3>1 DEF Due
    <2> QED BY <1>1, <1>2, <1>3, <2>1, <2>2
<1>8. SleepsShort'
    BY <1>1, <1>3, <1>5, SchedAssumption DEF IInv, SleepsShort
<1>9. GapsBounded'
    <2> SUFFICES ASSUME NEW i \in DOMAIN timer', NEW j \in DOMAIN timer', i <= j
                 PROVE  timer'[i].left - timer'[j].left <= MaxSleep * (j - i)
        BY DEF GapsBounded
    <2>1. i + n <= j + n /\ (j + n) - (i + n) = j - i
        BY <1>1, <1>3
    <2>2. timer[i + n].left - timer[j + n].left <= MaxSleep * ((j + n) - (i + n))
        BY <1>3, <2>1 DEF IInv, GapsBounded
    <2>3. timer'[i].left - timer'[j].left = timer[i + n].left - timer[j + n].left
        <3>1. timer[i + n].left \in Int /\ timer[j + n].left \in Int
            BY <1>1, <1>3
        <3> QED BY <1>5, <3>1
    <2>4. MaxSleep * ((j + n) - (i + n)) = MaxSleep * (j - i)
        BY ONLY <2>1, Zenon
    <2> QED BY ONLY <2>2, <2>3, <2>4, Zenon
<1> QED BY <1>3, <1>4, <1>5, <1>6, <1>7, <1>8, <1>9

(* The states after the firing loop still match the events left in the     *)
(* list: a process is asleep exactly when it has one.                      *)
LEMMA FireStates ==
    ASSUME IInv, NEW n \in 0 .. Len(timer), FireCount(n),
           timer' = TimerAfterFire(n)
    PROVE  /\ StateAfterFire(n) \in [Tasks -> States]
           /\ \A t \in Tasks :
                 \/ StateAfterFire(n)[t] = state[t]
                 \/ /\ t \in Pids /\ state[t] = "BLOCKED"
                    /\ StateAfterFire(n)[t] = "READY"
           /\ \A p \in Pids : StateAfterFire(n)[p] = "BLOCKED"
                 <=> \E i \in DOMAIN timer' : timer'[i].proc = p
           /\ \A i, j \in DOMAIN timer' : timer'[i].proc = timer'[j].proc => i = j
<1> DEFINE st == StateAfterFire(n)
<1>1. /\ Len(timer) \in Nat /\ DOMAIN timer = 1 .. Len(timer) /\ n \in Int
      /\ 0 <= n /\ n <= Len(timer)
      /\ \A i \in DOMAIN timer : timer[i].proc \in Pids
    BY SeqElements, EventFields DEF IInv, TypeOK
<1>2. /\ DOMAIN timer' = 1 .. Len(timer) - n
      /\ \A i \in DOMAIN timer' : /\ i + n \in DOMAIN timer
                                  /\ timer'[i].proc = timer[i + n].proc
    BY FireTimer
<1>3. \A i, j \in DOMAIN timer : timer[i].proc = timer[j].proc => i = j
    BY DEF IInv, SleepersHaveOneEvent
<1>4. \A p \in Pids :
         state[p] = "BLOCKED" <=> \E i \in DOMAIN timer : timer[i].proc = p
    BY DEF IInv, SleepersHaveOneEvent
<1>5. st = [t \in Tasks |-> IF t \in Woken(n) THEN "READY" ELSE state[t]]
    BY DEF StateAfterFire
<1>6. \A t : t \in Woken(n) <=> \E i \in 1 .. n : timer[i].proc = t
    BY DEF Woken
<1>7. \A t \in Woken(n) : t \in Pids /\ state[t] = "BLOCKED"
    BY <1>1, <1>4, <1>6
<1>8. state \in [Tasks -> States] /\ "READY" \in States /\ Pids \subseteq Tasks
    BY DEF IInv, TypeOK, States, Tasks
<1> HIDE DEF st
<1>9. st \in [Tasks -> States]
    BY <1>5, <1>8
<1>10. \A t \in Tasks : \/ st[t] = state[t]
                        \/ t \in Pids /\ state[t] = "BLOCKED" /\ st[t] = "READY"
    BY <1>5, <1>7
<1>11. ASSUME NEW i \in DOMAIN timer', NEW j \in DOMAIN timer',
              timer'[i].proc = timer'[j].proc
       PROVE  i = j
    <2>1. i + n = j + n
        BY <1>2, <1>3, <1>11
    <2> QED BY <1>1, <1>2, <2>1
<1>12. ASSUME NEW p \in Pids, st[p] = "BLOCKED"
       PROVE  \E i \in DOMAIN timer' : timer'[i].proc = p
    <2>1. p \notin Woken(n) /\ state[p] = "BLOCKED"
        BY <1>5, <1>8, <1>12
    <2>2. PICK i \in DOMAIN timer : timer[i].proc = p
        BY <1>4, <2>1
    <2>3. i \notin 1 .. n
        BY <1>6, <2>1, <2>2
    <2>4. i - n \in DOMAIN timer' /\ (i - n) + n = i
        BY <1>1, <1>2, <2>3
    <2> QED BY <1>2, <2>2, <2>4
<1>13. ASSUME NEW p \in Pids, NEW i \in DOMAIN timer', timer'[i].proc = p
       PROVE  st[p] = "BLOCKED"
    <2>1. i + n \in DOMAIN timer /\ timer[i + n].proc = p /\ i \in Int /\ i >= 1
        BY <1>2, <1>1, <1>13
    <2>2. state[p] = "BLOCKED"
        BY <1>4, <2>1
    <2>3. ASSUME NEW j \in 1 .. n, timer[j].proc = p PROVE FALSE
        <3>1. j \in DOMAIN timer /\ j # i + n
            BY <1>1, <2>1, <2>3
        <3> QED BY <1>3, <2>1, <2>3, <3>1
    <2>4. p \notin Woken(n)
        BY <1>6, <2>3
    <2> QED BY <1>5, <1>8, <2>2, <2>4
<1> QED BY <1>9, <1>10, <1>11, <1>12, <1>13 DEF st

(* A tick that leaves the CPU where it is.                                 *)
LEMMA TickKeepIInv == ASSUME IInv, TickKeep PROVE IInv'
<1>1. PICK n \in 0 .. Len(timer) : /\ FireCount(n)
                                   /\ state' = StateAfterFire(n)
                                   /\ timer' = TimerAfterFire(n)
    BY DEF TickKeep
<1>2. UNCHANGED <<procs, runqueue, cur>> /\ credit' = Charged
    BY DEF TickKeep
<1>3. /\ timer' \in Seq(Events)
      /\ TimerLatestFirst' /\ HeadNotOverdue' /\ SleepsShort' /\ GapsBounded'
    BY <1>1, FireTimer
<1>4. /\ state' \in [Tasks -> States]
      /\ \A t \in Tasks : \/ state'[t] = state[t]
                          \/ /\ t \in Pids /\ state[t] = "BLOCKED"
                             /\ state'[t] = "READY"
      /\ SleepersHaveOneEvent'
    BY <1>1, FireStates DEF SleepersHaveOneEvent
<1>5. Charged \in [Pids -> Int]
    BY DEF IInv, TypeOK, Charged
<1>6. TypeOK'
    BY <1>2, <1>3, <1>4, <1>5 DEF IInv, TypeOK
<1>7. TasksExist' /\ CurrentAwake' /\ RunningIsCurrent'
    BY <1>2, <1>4 DEF IInv, TypeOK, TasksExist, CurrentAwake, RunningIsCurrent, Tasks
<1>8. QueueSound'
    <2>1. \A i \in DOMAIN runqueue : runqueue[i] \in Pids
        BY SeqElements DEF IInv, TypeOK
    <2> QED BY <1>2, <1>4, <2>1 DEF IInv, QueueSound, Tasks
<1> QED BY <1>3, <1>4, <1>6, <1>7, <1>8 DEF IInv

(* The queue low_level_sched works on, kept or refilled by sched_schedule, *)
(* holds READY processes, each once.                                       *)
LEMMA QueueReady ==
    ASSUME IInv, NEW st \in [Tasks -> States], NEW q \in QueueAfterSchedule(st),
           \A t \in Tasks : state[t] = "READY" => st[t] = "READY"
    PROVE  /\ q \in Seq(Pids)
           /\ \A i, j \in DOMAIN q : i # j => q[i] # q[j]
           /\ \A i \in DOMAIN q : q[i] \in procs /\ st[q[i]] = "READY"
<1>1. procs \subseteq Pids /\ Pids \subseteq Tasks
    BY DEF IInv, TypeOK, Tasks
<1>2. CASE Refill
    <2>1. PICK s \in Schedules(st) : q = s \o << >>
        BY <1>2 DEF QueueAfterSchedule, Refill
    <2>2. Cardinality(ReadySet(st)) \in Nat
        <3>1. IsFiniteSet(Pids)
            BY SchedAssumption, FS_Interval DEF Pids
        <3>2. ReadySet(st) \subseteq Pids
            BY <1>1 DEF ReadySet
        <3>3. IsFiniteSet(ReadySet(st))
            BY <3>1, <3>2, FS_Subset
        <3> QED BY <3>3, FS_CardinalityType
    <2>3. /\ s \in [1 .. Cardinality(ReadySet(st)) -> ReadySet(st)]
          /\ \A i, j \in DOMAIN s : i < j => s[i] > s[j]
        BY DEF Schedules
    <2>4. s \in Seq(ReadySet(st))
        BY <2>2, <2>3, FunctionIsSeq
    <2>5. q = s
        BY <2>1, <2>4
    <2>6. ReadySet(st) \subseteq Pids /\ \A p \in ReadySet(st) : st[p] = "READY"
        BY <1>1 DEF ReadySet
    <2>7. q \in Seq(Pids)
        BY <2>4, <2>5, <2>6
    <2>8. ASSUME NEW i \in DOMAIN q, NEW j \in DOMAIN q, i # j
          PROVE  q[i] # q[j]
        <3>1. i \in Int /\ j \in Int /\ q[i] \in Int /\ q[j] \in Int
            <4>1. Pids \subseteq Int
                BY SchedAssumption DEF Pids
            <4>2. i \in 1 .. Len(q) /\ j \in 1 .. Len(q) /\ Len(q) \in Nat
                BY <2>7, SeqElements
            <4>3. q[i] \in Pids /\ q[j] \in Pids
                BY <2>7, SeqElements
            <4>4. i \in Int /\ j \in Int
                BY <4>2
            <4>5. q[i] \in Int /\ q[j] \in Int
                BY ONLY <4>1, <4>3, Zenon
            <4> QED BY ONLY <4>4, <4>5
        <3>2. i < j \/ j < i
            BY <2>8, <3>1
        <3> QED BY <2>3, <2>5, <3>1, <3>2
    <2>9. \A i \in DOMAIN q : q[i] \in procs /\ st[q[i]] = "READY"
        BY <2>3, <2>5 DEF ReadySet
    <2> QED BY <2>7, <2>8, <2>9
<1>3. CASE ~Refill
    <2>1. q = runqueue
        BY <1>3 DEF QueueAfterSchedule
    <2>2. QueueSound /\ runqueue \in Seq(Pids)
        BY DEF IInv, TypeOK
    <2> QED BY <1>1, <2>1, <2>2 DEF QueueSound
<1> QED BY <1>2, <1>3

(* Head and tail of a queue that is not empty.                             *)
LEMMA HeadTail ==
    ASSUME NEW S, NEW q \in Seq(S), q # << >>
    PROVE  /\ Head(q) \in S /\ 1 \in DOMAIN q /\ Head(q) = q[1]
           /\ Tail(q) \in Seq(S)
           /\ \A i \in DOMAIN Tail(q) : /\ i \in Int /\ i >= 1
                                        /\ i + 1 \in DOMAIN q
                                        /\ Tail(q)[i] = q[i + 1]
OBVIOUS

(* A tick that takes the CPU away from the current task.                   *)
LEMMA TickSwitchIInv == ASSUME IInv, TickSwitch PROVE IInv'
<1>1. PICK n \in 0 .. Len(timer) :
        /\ FireCount(n)
        /\ timer' = TimerAfterFire(n)
        /\ credit' = CreditAfterSchedule(StateAfterFire(n))
        /\ \E q \in QueueAfterSchedule(StateAfterFire(n)) :
              \/ /\ q = << >>
                 /\ cur' = Idle
                 /\ runqueue' = << >>
                 /\ state' = Preempted(StateAfterFire(n))
              \/ /\ q # << >>
                 /\ cur' = Head(q)
                 /\ runqueue' = Tail(q)
                 /\ state' = [Preempted(StateAfterFire(n)) EXCEPT ![Head(q)] = "RUNNING"]
    BY DEF TickSwitch
<1> DEFINE st == StateAfterFire(n)
           pre == Preempted(st)
<1>2. /\ timer' \in Seq(Events)
      /\ TimerLatestFirst' /\ HeadNotOverdue' /\ SleepsShort' /\ GapsBounded'
    BY <1>1, FireTimer
<1>3. /\ st \in [Tasks -> States]
      /\ \A t \in Tasks : \/ st[t] = state[t]
                          \/ t \in Pids /\ state[t] = "BLOCKED" /\ st[t] = "READY"
      /\ \A p \in Pids : st[p] = "BLOCKED"
                            <=> \E i \in DOMAIN timer' : timer'[i].proc = p
      /\ \A i, j \in DOMAIN timer' : timer'[i].proc = timer'[j].proc => i = j
    BY <1>1, FireStates
<1>4. procs' = procs
    BY DEF TickSwitch
<1> HIDE DEF st
<1>5. /\ cur \in Tasks /\ state[cur] # "BLOCKED" /\ st[cur] # "BLOCKED"
      /\ procs \subseteq Pids /\ state \in [Tasks -> States]
      /\ Pids \subseteq Tasks /\ Idle \in Tasks /\ Idle \notin Pids
    BY <1>3 DEF IInv, TypeOK, CurrentAwake, Tasks, Pids, Idle
<1>6. /\ pre \in [Tasks -> States]
      /\ \A t \in Tasks : pre[t] = IF t = cur THEN "READY" ELSE st[t]
    BY <1>3, <1>5 DEF Preempted, States
<1> HIDE DEF pre
<1>7. \A p \in Pids : pre[p] # "RUNNING"
    BY <1>3, <1>5, <1>6 DEF IInv, RunningIsCurrent
<1>8. \A p \in Pids : pre[p] = "BLOCKED" <=> st[p] = "BLOCKED"
    BY <1>5, <1>6
<1>9. /\ pre[Idle] = "READY"
      /\ \A p \in Pids : p \in procs <=> pre[p] # "NONE"
    BY <1>3, <1>5, <1>6 DEF IInv, TasksExist
<1>10. credit' \in [Pids -> Int]
    <2>1. Charged \in [Pids -> Int]
        BY DEF IInv, TypeOK, Charged
    <2> QED BY <1>1, <2>1, SchedAssumption DEF CreditAfterSchedule
<1>11. CASE /\ cur' = Idle
            /\ runqueue' = << >>
            /\ state' = pre
    <2>1. TypeOK'
        BY <1>2, <1>4, <1>5, <1>6, <1>10, <1>11 DEF TypeOK
    <2>2. TasksExist' /\ CurrentAwake'
        BY <1>4, <1>9, <1>11 DEF TasksExist, CurrentAwake
    <2>3. RunningIsCurrent' /\ QueueSound'
        BY <1>7, <1>11 DEF RunningIsCurrent, QueueSound
    <2>4. SleepersHaveOneEvent'
        BY <1>3, <1>8, <1>11 DEF SleepersHaveOneEvent
    <2> QED BY <1>2, <2>1, <2>2, <2>3, <2>4 DEF IInv
<1>12. ASSUME NEW q \in QueueAfterSchedule(st), q # << >>,
              cur' = Head(q), runqueue' = Tail(q),
              state' = [pre EXCEPT ![Head(q)] = "RUNNING"]
       PROVE  IInv'
    <2>1. /\ q \in Seq(Pids)
          /\ \A i, j \in DOMAIN q : i # j => q[i] # q[j]
          /\ \A i \in DOMAIN q : q[i] \in procs /\ st[q[i]] = "READY"
        BY <1>3, <1>5, QueueReady
    <2>2. /\ Head(q) \in Pids /\ 1 \in DOMAIN q /\ Head(q) = q[1]
          /\ Tail(q) \in Seq(Pids)
          /\ \A i \in DOMAIN Tail(q) : /\ i \in Int /\ i >= 1
                                       /\ i + 1 \in DOMAIN q
                                       /\ Tail(q)[i] = q[i + 1]
        BY <1>12, <2>1, HeadTail
    <2>3. Head(q) \in procs /\ st[Head(q)] = "READY"
        BY <2>1, <2>2
    <2>4. /\ state' \in [Tasks -> States]
          /\ state'[Head(q)] = "RUNNING"
          /\ \A t \in Tasks : t # Head(q) => state'[t] = pre[t]
        BY <1>5, <1>6, <1>12, <2>2 DEF States
    <2>5. TypeOK'
        BY <1>2, <1>4, <1>5, <1>10, <1>12, <2>2, <2>4 DEF TypeOK
    <2>6. TasksExist' /\ CurrentAwake'
        BY <1>4, <1>5, <1>9, <1>12, <2>2, <2>3, <2>4 DEF TasksExist, CurrentAwake
    <2>7. RunningIsCurrent'
        BY <1>5, <1>7, <1>12, <2>4 DEF RunningIsCurrent
    <2>8. SleepersHaveOneEvent'
        BY <1>3, <1>5, <1>8, <2>2, <2>3, <2>4 DEF SleepersHaveOneEvent
    <2>9. QueueSound'
        <3>1. ASSUME NEW i \in DOMAIN Tail(q)
              PROVE  /\ Tail(q)[i] \in procs /\ Tail(q)[i] # Head(q)
                     /\ state'[Tail(q)[i]] = "READY"
            <4>1. Tail(q)[i] = q[i + 1] /\ i + 1 \in DOMAIN q /\ i + 1 # 1
                BY <2>2, <3>1
            <4>2. q[i + 1] \in procs /\ st[q[i + 1]] = "READY" /\ q[i + 1] # Head(q)
                BY <2>1, <2>2, <4>1
            <4>3. pre[q[i + 1]] = "READY"
                BY <1>5, <1>6, <4>2
            <4> QED BY <1>5, <2>4, <4>1, <4>2, <4>3
        <3>2. ASSUME NEW i \in DOMAIN Tail(q), NEW j \in DOMAIN Tail(q), i # j
              PROVE  Tail(q)[i] # Tail(q)[j]
            <4>1. i + 1 # j + 1
                BY <2>2, <3>2
            <4> QED BY <2>1, <2>2, <4>1
        <3> QED BY <1>4, <1>12, <3>1, <3>2 DEF QueueSound
    <2> QED BY <1>2, <2>5, <2>6, <2>7, <2>8, <2>9 DEF IInv
<1> QED BY <1>1, <1>11, <1>12 DEF st, pre

(* What the division of sys_nanosleep leaves out is less than a tick.      *)
LEMMA DivBounds ==
    ASSUME NEW n \in Nat, NEW m \in Nat \ {0}
    PROVE  n \div m \in Nat /\ n < (n \div m) * m + m
OBVIOUS

LEMMA TicksInRange ==
    ASSUME NEW rqtp \in Timespecs, Ticks(rqtp) <= MaxSleep
    PROVE  Ticks(rqtp) \in 0 .. MaxSleep
<1>1. rqtp.tv_sec \in Nat /\ rqtp.tv_nsec \in Nat /\ HZ \in Nat /\ MaxSleep \in Nat
    BY SchedAssumption DEF Timespecs
<1>2. rqtp.tv_sec * HZ \in Nat /\ rqtp.tv_nsec * HZ \in Nat
    BY <1>1
<1>3. (rqtp.tv_nsec * HZ) \div Nano \in Nat
    BY <1>2, DivBounds, SchedAssumption
<1> QED BY <1>1, <1>2, <1>3 DEF Ticks

(* Every system call and every tick keeps the inductive invariant.         *)
LEMMA InductiveStep == IInv /\ [Next]_vars => IInv'
<1> SUFFICES ASSUME IInv, [Next]_vars PROVE IInv'
    OBVIOUS
<1>1. CASE \E p \in Pids : Fork(p)
    BY <1>1, ForkIInv
<1>2. ASSUME NEW p \in Pids, NEW rqtp \in Timespecs, Nanosleep(p, rqtp)
      PROVE  IInv'
    <2> DEFINE d == Ticks(rqtp)
    <2>1. d \in 0 .. MaxSleep /\ Sleep(p, d)
        BY <1>2, TicksInRange DEF Nanosleep
    <2> HIDE DEF d
    <2> QED BY <2>1, SleepIInv
<1>3. CASE \E p \in Pids : Exit(p)
    BY <1>3, ExitIInv
<1>4. CASE HltLoop \/ UNCHANGED vars
    <2>1. /\ procs' = procs /\ state' = state /\ credit' = credit
          /\ runqueue' = runqueue /\ timer' = timer /\ cur' = cur
        BY <1>4 DEF HltLoop, vars
    <2>2. TypeOK' /\ TasksExist' /\ CurrentAwake' /\ RunningIsCurrent'
        BY <2>1 DEF IInv, TypeOK, TasksExist, CurrentAwake, RunningIsCurrent
    <2>3. QueueSound' /\ SleepersHaveOneEvent'
        BY <2>1 DEF IInv, QueueSound, SleepersHaveOneEvent
    <2>4. TimerLatestFirst' /\ HeadNotOverdue' /\ SleepsShort' /\ GapsBounded'
        BY <2>1 DEF IInv, TimerLatestFirst, HeadNotOverdue, SleepsShort, GapsBounded
    <2> QED BY <2>2, <2>3, <2>4 DEF IInv
<1>5. CASE Tick
    BY <1>5, TickKeepIInv, TickSwitchIInv DEF Tick
<1> QED BY <1>1, <1>2, <1>3, <1>4, <1>5 DEF Next

(* The inductive invariant holds in every reachable state.                 *)
LEMMA Invariance == Spec => []IInv
<1>1. Init => IInv
    BY InitIInv
<1>2. IInv /\ [Next]_vars => IInv'
    BY InductiveStep
<1> QED BY <1>1, <1>2, PTL DEF Spec

-----------------------------------------------------------------------------
(* The variables keep their types, whatever system calls and ticks happen. *)
THEOREM TypeCorrect == Spec => []TypeOK
<1>1. IInv => TypeOK
    BY DEF IInv
<1> QED BY <1>1, Invariance, PTL

(* At most one process is RUNNING, and it is the one whose context the     *)
(* next interrupt saves (cpu->cur_task).                                   *)
THEOREM OneRunning == Spec => []RunningIsCurrent
<1>1. IInv => RunningIsCurrent
    BY DEF IInv
<1> QED BY <1>1, Invariance, PTL

(* The run queue never holds a task twice, the current task or one that    *)
(* is not READY, so pushing through task_t.next never loses a task.        *)
THEOREM RunQueueSound == Spec => []QueueSound
<1>1. IInv => QueueSound
    BY DEF IInv
<1> QED BY <1>1, Invariance, PTL

(* Sleeping processes and timer events match one to one, so no sleep is    *)
(* forgotten and no stale event ends a later sleep.                        *)
THEOREM SleepersMatchEvents == Spec => []SleepersHaveOneEvent
<1>1. IInv => SleepersHaveOneEvent
    BY DEF IInv
<1> QED BY <1>1, Invariance, PTL

(* sys_nanosleep keeps the timer list in order, latest event first.        *)
THEOREM TimerOrdered == Spec => []TimerLatestFirst
<1>1. IInv => TimerLatestFirst
    BY DEF IInv
<1> QED BY <1>1, Invariance, PTL

(* There are no more events than processes.                                *)
LEMMA EventsFit == ASSUME IInv PROVE Len(timer) <= ProcNr
<1>1. /\ Len(timer) \in Nat /\ DOMAIN timer = 1 .. Len(timer)
      /\ \A i \in DOMAIN timer : timer[i].proc \in Pids
    BY SeqElements, EventFields DEF IInv, TypeOK
<1>2. ProcNr \in Nat
    BY SchedAssumption
<1> DEFINE f == [i \in 1 .. Len(timer) |-> timer[i].proc]
<1>3. f \in Injection(1 .. Len(timer), Pids)
    <2>1. f \in [1 .. Len(timer) -> Pids]
        BY <1>1
    <2>2. \A i, j \in 1 .. Len(timer) : f[i] = f[j] => i = j
        BY <1>1 DEF IInv, SleepersHaveOneEvent
    <2> QED BY <2>1, <2>2 DEF Injection, IsInjective
<1>4. IsFiniteSet(1 .. Len(timer)) /\ Cardinality(1 .. Len(timer)) = Len(timer)
    <2>1. 1 \in Int /\ Len(timer) \in Int
        BY <1>1
    <2>2. Cardinality(1 .. Len(timer)) = IF 1 > Len(timer) THEN 0 ELSE Len(timer) - 1 + 1
        BY <2>1, FS_Interval
    <2>3. IsFiniteSet(1 .. Len(timer))
        BY <2>1, FS_Interval
    <2> QED BY <1>1, <2>2, <2>3
<1>5. IsFiniteSet(Pids) /\ Cardinality(Pids) = ProcNr
    <2>1. 1 \in Int /\ ProcNr \in Int
        BY <1>2
    <2>2. Cardinality(1 .. ProcNr) = IF 1 > ProcNr THEN 0 ELSE ProcNr - 1 + 1
        BY <2>1, FS_Interval
    <2>3. IsFiniteSet(1 .. ProcNr)
        BY <2>1, FS_Interval
    <2> QED BY <1>2, <2>2, <2>3 DEF Pids
<1>6. Cardinality(1 .. Len(timer)) <= Cardinality(Pids)
    BY <1>3, <1>4, <1>5, FS_Injection
<1> QED BY <1>4, <1>5, <1>6

(* A sleeper oversleeps by at most MaxSleep ticks for every other process, *)
(* although later sleepers hold back its event at the head of the list.    *)
THEOREM SleepOverrunBounded == Spec => []OverdueBounded
<1>1. IInv => OverdueBounded
    <2> SUFFICES ASSUME IInv, NEW i \in DOMAIN timer
                 PROVE  timer[i].left >= - (MaxSleep * (ProcNr - 1))
        BY DEF OverdueBounded
    <2>1. /\ Len(timer) \in Nat /\ i \in Int /\ 1 <= i /\ i <= Len(timer)
          /\ 1 \in DOMAIN timer /\ timer # << >>
          /\ timer[i].left \in Int /\ timer[1].left \in Int
        BY SeqElements, EventFields DEF IInv, TypeOK
    <2>2. timer[1].left >= 0
        BY <2>1 DEF IInv, HeadNotOverdue
    <2>3. timer[1].left - timer[i].left <= MaxSleep * (i - 1)
        BY <2>1 DEF IInv, GapsBounded
    <2>4. MaxSleep \in Nat /\ ProcNr \in Nat /\ i <= ProcNr
        BY <2>1, EventsFit, SchedAssumption
    <2>5. MaxSleep * (i - 1) <= MaxSleep * (ProcNr - 1)
        <3>1. /\ ProcNr - i \in Nat
              /\ MaxSleep * (ProcNr - 1) = MaxSleep * (i - 1) + MaxSleep * (ProcNr - i)
            BY <2>1, <2>4
        <3>2. MaxSleep * (ProcNr - i) \in Nat
            BY <2>4, <3>1
        <3>3. MaxSleep * (i - 1) \in Int
            BY <2>1, <2>4
        <3> QED BY <3>1, <3>2, <3>3
    <2>6. MaxSleep * (i - 1) \in Int /\ MaxSleep * (ProcNr - 1) \in Int
        BY <2>1, <2>4
    <2>7. \A m, k \in Int : timer[1].left - timer[i].left <= m /\ m <= k
                               => timer[i].left >= - k
        BY <2>1, <2>2
    <2> QED BY <2>3, <2>5, <2>6, <2>7
<1> QED BY <1>1, Invariance, PTL

(* The time a sleeper misses is less than a tick longer than the one left  *)
(* in its event, the part that the division dropped, unless it is overdue. *)
AskedFits ==
    /\ asked \in [Pids -> Int]
    /\ \A i \in DOMAIN timer :
          \/ asked[timer[i].proc] < Nano
          \/ asked[timer[i].proc] < timer[i].left * Nano + Nano

(* A new event is short of the time asked for by less than a tick.         *)
LEMMA TicksFit ==
    ASSUME NEW rqtp \in Timespecs
    PROVE  LET a == (rqtp.tv_sec * Nano + rqtp.tv_nsec) * HZ
           IN  /\ a \in Int /\ Ticks(rqtp) \in Int
               /\ a < Ticks(rqtp) * Nano + Nano
<1> DEFINE s == rqtp.tv_sec
           n == rqtp.tv_nsec
           q == (n * HZ) \div Nano
<1>1. s \in Nat /\ n \in Nat /\ HZ \in Nat /\ Nano \in Nat \ {0}
    BY SchedAssumption DEF Timespecs
<1>2. n * HZ \in Nat /\ s * HZ \in Nat /\ s * Nano \in Nat
    BY <1>1
<1>3. q \in Nat /\ n * HZ < q * Nano + Nano
    BY <1>1, <1>2, DivBounds
<1>4. Ticks(rqtp) = s * HZ + q
    BY DEF Ticks
<1> HIDE DEF s, n, q
<1>5. (s * Nano + n) * HZ = (s * HZ) * Nano + n * HZ
    BY <1>1
<1>6. (s * HZ + q) * Nano = (s * HZ) * Nano + q * Nano
    BY <1>1, <1>3
<1>7. (s * HZ) * Nano \in Int /\ q * Nano \in Int /\ n * HZ \in Int
    BY <1>1, <1>2, <1>3
<1>8. \A x, y, z \in Int : y < z + Nano => x + y < (x + z) + Nano
    BY <1>1
<1>9. (s * Nano + n) * HZ < (s * HZ + q) * Nano + Nano
    BY <1>3, <1>5, <1>6, <1>7, <1>8
<1>10. (s * Nano + n) * HZ \in Int /\ s * HZ + q \in Int
    BY <1>1, <1>2, <1>3
<1> QED BY <1>4, <1>9, <1>10 DEF s, n

(* A tick takes as much off the time asked for as off the event.           *)
LEMMA TickFits ==
    ASSUME IInv, IInv', AskedFits, NEW n \in 0 .. Len(timer), FireCount(n),
           timer' = TimerAfterFire(n), asked' = AskedAfterTick
    PROVE  AskedFits'
<1>1. Nano \in Int /\ Nano > 0
    BY SchedAssumption
<1>2. asked' \in [Pids -> Int]
    BY <1>1 DEF AskedFits, AskedAfterTick
<1>3. ASSUME NEW i \in DOMAIN timer'
      PROVE  \/ asked'[timer'[i].proc] < Nano
             \/ asked'[timer'[i].proc] < timer'[i].left * Nano + Nano
    <2> DEFINE p == timer'[i].proc
               l == timer[i + n].left
    <2>1. /\ i + n \in DOMAIN timer /\ timer[i + n].proc = p
          /\ timer'[i].left = l - 1
        BY <1>3, FireTimer
    <2>2. p \in Pids /\ l \in Int
        BY <2>1, SeqElements, EventFields DEF IInv, TypeOK
    <2>3. state'[p] = "BLOCKED"
        BY <1>3, <2>2 DEF IInv, SleepersHaveOneEvent
    <2>4. /\ asked[p] \in Int
          /\ asked'[p] = IF asked[p] >= Nano THEN asked[p] - Nano ELSE 0
        BY <2>2, <2>3 DEF AskedAfterTick, AskedFits
    <2>5. asked[p] < Nano \/ asked[p] < l * Nano + Nano
        BY <2>1 DEF AskedFits
    <2> HIDE DEF p, l
    <2>6. (l - 1) * Nano = l * Nano - Nano /\ l * Nano \in Int
        BY <1>1, <2>2
    <2>7. asked'[p] < Nano \/ asked'[p] < (l - 1) * Nano + Nano
        BY <1>1, <2>4, <2>5, <2>6
    <2> QED BY <2>1, <2>7 DEF p
<1> QED BY <1>2, <1>3 DEF AskedFits

(* No step but a tick and sys_nanosleep touches the events or the times.   *)
LEMMA AskedStep == IInv /\ IInv' /\ AskedFits /\ [Next]_vars => AskedFits'
<1> SUFFICES ASSUME IInv, IInv', AskedFits, [Next]_vars PROVE AskedFits'
    OBVIOUS
<1>1. CASE UNCHANGED <<timer, asked>>
    BY <1>1 DEF AskedFits
<1>2. ASSUME NEW p \in Pids, NEW rqtp \in Timespecs, Nanosleep(p, rqtp)
      PROVE  AskedFits'
    <2> DEFINE d == Ticks(rqtp)
               e == [proc |-> p, left |-> d]
               a == (rqtp.tv_sec * Nano + rqtp.tv_nsec) * HZ
    <2>1. d \in 0 .. MaxSleep
        BY <1>2, TicksInRange DEF Nanosleep
    <2>2. a \in Int /\ d \in Int /\ a < d * Nano + Nano
        BY TicksFit
    <2>3. /\ cur = p
          /\ asked' = [asked EXCEPT ![p] = a]
          /\ \E k \in 1 .. Len(timer) + 1 : InsertPos(k, d) /\ timer' = InsertEvent(k, e)
        BY <1>2 DEF Nanosleep, Sleep, Executing
    <2>4. e \in Events /\ e.left = d /\ e.proc = p
        BY <2>2, EventFields
    <2> HIDE DEF d, e, a
    <2>5. PICK k \in 1 .. Len(timer) + 1 : InsertPos(k, d) /\ timer' = InsertEvent(k, e)
        BY <2>3
    <2>6. /\ DOMAIN timer' = 1 .. Len(timer) + 1
          /\ \A i \in DOMAIN timer' : i < k => i \in DOMAIN timer /\ timer'[i] = timer[i]
          /\ timer'[k] = e
          /\ \A i \in DOMAIN timer' : i > k => i - 1 \in DOMAIN timer /\ timer'[i] = timer[i - 1]
        BY <2>1, <2>4, <2>5, InsertShape
    <2>7. \A i \in DOMAIN timer : timer[i].proc \in Pids /\ timer[i].proc # p
        <3>1. state[p] # "BLOCKED"
            BY <2>3 DEF IInv, CurrentAwake
        <3> QED BY <3>1, SeqElements, EventFields DEF IInv, TypeOK, SleepersHaveOneEvent
    <2>8. asked' \in [Pids -> Int]
        BY <2>2, <2>3 DEF AskedFits
    <2>9. \A i \in DOMAIN timer :
             \/ asked'[timer[i].proc] < Nano
             \/ asked'[timer[i].proc] < timer[i].left * Nano + Nano
        BY <2>3, <2>7 DEF AskedFits
    <2>10. asked'[e.proc] < e.left * Nano + Nano
        BY <2>2, <2>3, <2>4 DEF AskedFits
    <2>11. ASSUME NEW i \in DOMAIN timer'
           PROVE  \/ asked'[timer'[i].proc] < Nano
                  \/ asked'[timer'[i].proc] < timer'[i].left * Nano + Nano
        <3>1. i < k \/ i = k \/ i > k
            <4>1. Len(timer) \in Nat
                BY SeqElements DEF IInv, TypeOK
            <4> QED BY <2>6, <4>1
        <3>2. CASE i < k
            BY <2>6, <2>9, <3>2
        <3>3. CASE i = k
            BY <2>6, <2>10, <3>3
        <3>4. CASE i > k
            BY <2>6, <2>9, <3>4
        <3> QED BY <3>1, <3>2, <3>3, <3>4
    <2> QED BY <2>8, <2>11 DEF AskedFits
<1>3. CASE Tick
    BY <1>3, TickFits DEF Tick, TickKeep, TickSwitch
<1>4. ASSUME NEW p \in Pids, Fork(p) \/ Exit(p) PROVE UNCHANGED <<timer, asked>>
    BY <1>4 DEF Fork, Exit
<1>5. HltLoop \/ UNCHANGED vars => UNCHANGED <<timer, asked>>
    BY DEF HltLoop, vars
<1> QED BY <1>1, <1>2, <1>3, <1>4, <1>5 DEF Next

(* sys_nanosleep returns early by less than a tick, whatever the unit of   *)
(* time, the tick rate and the other sleepers are.                         *)
THEOREM SleepLongEnough == Spec => EarlyByLessThanTick
<1> DEFINE A == \A p \in Pids : state[p] = "BLOCKED" /\ state'[p] # "BLOCKED"
                                   => asked[p] < Nano
<1>1. IInv /\ AskedFits /\ [Next]_vars => [A]_vars
    <2> SUFFICES ASSUME IInv, AskedFits, Next, NEW p \in Pids,
                        state[p] = "BLOCKED", state'[p] # "BLOCKED"
                 PROVE  asked[p] < Nano
        OBVIOUS
    <2>p. PICK i \in DOMAIN timer : timer[i].proc = p
        BY DEF IInv, SleepersHaveOneEvent
    <2>q. SUFFICES timer[i].left - 1 < 0
        <3>1. /\ timer[i].left \in Int /\ asked[p] \in Int /\ Nano \in Nat
              /\ \/ asked[p] < Nano
                 \/ asked[p] < timer[i].left * Nano + Nano
            BY <2>p, SeqElements, EventFields, SchedAssumption DEF IInv, TypeOK, AskedFits
        <3>2. timer[i].left <= 0
            BY <2>q, <3>1
        <3>3. timer[i].left * Nano <= 0 /\ timer[i].left * Nano \in Int
            BY <3>1, <3>2
        <3> QED BY <3>1, <3>3
    <2>1. /\ p \in Pids /\ p \in Tasks /\ p # cur
          /\ state \in [Tasks -> States]
        BY DEF IInv, TypeOK, CurrentAwake, Tasks
    <2>2. CASE \E c \in Pids : Fork(c)
        <3>1. PICK pid \in Pids : /\ pid \notin procs
                                  /\ state' = [state EXCEPT ![pid] = "READY"]
            BY <2>2 DEF Fork, FirstFree
        <3>2. state[pid] = "NONE"
            BY <3>1 DEF IInv, TasksExist
        <3> QED BY <2>1, <3>1, <3>2
    <2>3. CASE \E c \in Pids, rqtp \in Timespecs : Nanosleep(c, rqtp)
        BY <2>1, <2>3 DEF Nanosleep, Sleep
    <2>4. CASE \E c \in Pids : Exit(c)
        BY <2>1, <2>4 DEF Exit, Executing
    <2>5. CASE HltLoop
        BY <2>5 DEF HltLoop, vars
    <2>6. ASSUME NEW n \in 0 .. Len(timer), FireCount(n), p \in Woken(n)
          PROVE  timer[i].left - 1 < 0
        <3>1. PICK j \in 1 .. n : timer[j].proc = p
            BY <2>6 DEF Woken
        <3>2. DOMAIN timer = 1 .. Len(timer) /\ Len(timer) \in Nat
            BY SeqElements DEF IInv, TypeOK
        <3>3. i = j
            BY <2>p, <3>1, <3>2 DEF IInv, SleepersHaveOneEvent
        <3>4. Due(Aged[i])
            BY <2>6, <3>1, <3>3 DEF FireCount
        <3>5. Aged[i] = Age(timer[i]) /\ timer[i] \in Events
            BY SeqElements DEF Aged, IInv, TypeOK
        <3>6. Aged[i].left = timer[i].left - 1
            BY <3>5, AgedEvent
        <3> QED BY <3>4, <3>6 DEF Due
    <2>7. CASE TickKeep
        <3>1. PICK n \in 0 .. Len(timer) : FireCount(n) /\ state' = StateAfterFire(n)
            BY <2>7 DEF TickKeep
        <3>2. p \in Woken(n)
            BY <2>1, <3>1 DEF StateAfterFire
        <3> QED BY <2>6, <3>1, <3>2
    <2>8. CASE TickSwitch
        <3>1. PICK n \in 0 .. Len(timer) :
                /\ FireCount(n)
                /\ timer' = TimerAfterFire(n)
                /\ \E q \in QueueAfterSchedule(StateAfterFire(n)) :
                     \/ state' = Preempted(StateAfterFire(n))
                     \/ /\ q # << >>
                        /\ state' = [Preempted(StateAfterFire(n))
                                        EXCEPT ![Head(q)] = "RUNNING"]
            BY <2>8 DEF TickSwitch
        <3>2. PICK q \in QueueAfterSchedule(StateAfterFire(n)) :
                     \/ state' = Preempted(StateAfterFire(n))
                     \/ /\ q # << >>
                        /\ state' = [Preempted(StateAfterFire(n))
                                        EXCEPT ![Head(q)] = "RUNNING"]
            BY <3>1
        <3>3. /\ StateAfterFire(n) \in [Tasks -> States]
              /\ \A t \in Tasks : state[t] = "READY" => StateAfterFire(n)[t] = "READY"
            BY <3>1, FireStates
        <3>4. ASSUME StateAfterFire(n)[p] = "BLOCKED" PROVE FALSE
            <4>1. q # << >> => StateAfterFire(n)[Head(q)] = "READY"
                <5>1. /\ q \in Seq(Pids)
                      /\ \A k \in DOMAIN q : StateAfterFire(n)[q[k]] = "READY"
                    BY <3>3, QueueReady
                <5> QED BY <5>1, HeadTail
            <4>2. Preempted(StateAfterFire(n))[p] = "BLOCKED"
                BY <2>1, <3>3, <3>4 DEF Preempted
            <4>3. q # << >> => Head(q) # p
                BY <3>4, <4>1
            <4>4. Preempted(StateAfterFire(n)) \in [Tasks -> States]
                BY <3>3 DEF Preempted, States
            <4> QED BY <2>1, <3>2, <4>2, <4>3, <4>4
        <3>5. p \in Woken(n)
            BY <2>1, <3>4 DEF StateAfterFire
        <3> QED BY <2>6, <3>1, <3>5
    <2> QED BY <2>2, <2>3, <2>4, <2>5, <2>7, <2>8 DEF Next, Tick
<1>2. Spec => []AskedFits
    <2>1. Init => AskedFits
        BY DEF Init, AskedFits
    <2> QED BY <2>1, AskedStep, Invariance, PTL DEF Spec
<1>3. Spec => [][Next]_vars
    BY PTL DEF Spec
<1>4. Spec => [][A]_vars
    BY <1>1, <1>2, <1>3, Invariance, PTL
<1> QED BY <1>4 DEF EarlyByLessThanTick
=============================================================================
