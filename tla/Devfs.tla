------------------------------- MODULE Devfs -------------------------------
(***************************************************************************)
(* Character devices (devfs.c, and _msg and _register_device of            *)
(* sysdriver.c): the table of devices, the two ring buffers of each, the   *)
(* lock of each, and tasks that block in devfs_read.                       *)
(*                                                                         *)
(* A system call runs with interrupts off on the only CPU that runs        *)
(* tasks, so one call at a time is in progress; the loops over bytes are   *)
(* steps of it (variable call), everything else is a single step.  A       *)
(* spin_lock on a lock that is held never ends.  A byte of High is         *)
(* negative as a char, and _chr_ibuf_putc and _chr_obuf_putc return the    *)
(* byte they stored: the callers then take it for an error.                *)
(***************************************************************************)
EXTENDS Integers, Sequences, FiniteSets

CONSTANTS Procs, Devs,   \* processes; device numbers 0 .. DEVFS_MAXDEVS - 1
          BufSize,       \* SYSDRIVER_DEV_BUFSIZE
          Bytes, High,
          MaxCount,      \* bound: bytes asked for in one call
          Nil

ASSUME DevfsAssumption ==
    /\ BufSize \in Nat \ {0} /\ MaxCount \in Nat
    /\ High \subseteq Bytes /\ Bytes # {}
    /\ Devs \subseteq Nat /\ 0 \in Devs
    /\ Nil \notin Procs

VARIABLES owner,    \* owner[d]: the process that registered device d, or Nil
          ibuf,     \* ibuf[d]: [head, tail, buf], from the driver to readers
          obuf,     \* obuf[d]: from writers to the driver
          lock,     \* lock[d]
          call,     \* the call in progress: operation, device, counts
          waiting,  \* waiting[p]: [dev, count] of p inside devfs_read, or Nil
          state,    \* state[p]: of its task: "ready", "blocked", or "marked",
                    \* TASK_BLOCKED but still on the CPU
          status    \* "ok", or "hung" in a spin_lock that cannot end

vars == <<owner, ibuf, obuf, lock, call, waiting, state, status>>

Index == 0 .. BufSize - 1
NoCall == [op |-> "none", dev |-> 0, left |-> 0, done |-> 0]

-----------------------------------------------------------------------------
(* The ring buffers: _chr_ibuf_putc, _chr_ibuf_getc, _chr_ibuf_length and  *)
(* their twins for the output buffer.  One cell stays unused.              *)
Succ(i) == IF i + 1 < BufSize THEN i + 1 ELSE 0

FullNever(r) == FALSE
Full(r) == r.head = Succ(r.tail)
Empty(r) == r.head = r.tail
Length(r) == IF r.tail >= r.head THEN r.tail - r.head ELSE BufSize + r.tail - r.head

PutAtHead(r, c) == [head |-> r.head, tail |-> Succ(r.tail), buf |-> [r.buf EXCEPT ![r.head] = c]]
Put(r, c) == [head |-> r.head, tail |-> Succ(r.tail), buf |-> [r.buf EXCEPT ![r.tail] = c]]
Get(r) == [head |-> Succ(r.head), tail |-> r.tail, buf |-> r.buf]
First(r) == r.buf[r.head]

(* _chr_obuf_available.                                                    *)
Available(r) == Length(r) < BufSize - 1

-----------------------------------------------------------------------------
(* devfs_register does not set head and tail: the positions are those left *)
(* in the memory of the object, assumed inside the buffer here.  So is the *)
(* data; it is all the same byte, since nothing reads what was not put.    *)
LeftInMemory ==
    {[head |-> h, tail |-> t, buf |-> [i \in Index |-> b]] :
        h \in Index, t \in Index, b \in Bytes}

Init ==
    /\ owner = [d \in Devs |-> Nil]
    /\ ibuf \in [Devs -> LeftInMemory] /\ obuf \in [Devs -> LeftInMemory]
    /\ lock = [d \in Devs |-> FALSE]
    /\ call = NoCall
    /\ waiting = [p \in Procs |-> Nil]
    /\ state = [p \in Procs |-> "ready"]
    /\ status = "ok"

(* p may enter a system call.                                              *)
Ready(p) ==
    status = "ok" /\ call.op = "none" /\ waiting[p] = Nil /\ state[p] # "blocked"

(* sys_driver(SYSDRIVER_REG_DEV): the first free number is taken.          *)
RegisterDevice(p) ==
    /\ Ready(p)
    /\ \E d \in Devs :
          /\ owner[d] = Nil /\ \A e \in Devs : e < d => owner[e] # Nil
          /\ owner' = [owner EXCEPT ![d] = p]
          /\ lock' = [lock EXCEPT ![d] = FALSE]
    /\ UNCHANGED <<ibuf, obuf, call, waiting, state, status>>

(* devfs_driver_putc, devfs_driver_write and devfs_driver_getc reach       *)
(* spin_lock for a device of p.                                            *)
Reaches(p, d) == Ready(p) /\ owner[d] = p

Hang(p, d) ==
    /\ Reaches(p, d) /\ lock[d]
    /\ status' = "hung"
    /\ UNCHANGED <<owner, ibuf, obuf, lock, call, waiting, state>>

(* devfs_driver_putc: the lock is released only on the error path.         *)
DriverPutc(p, d, c) ==
    /\ Reaches(p, d) /\ ~lock[d]
    /\ ibuf' = IF Full(ibuf[d]) THEN ibuf ELSE [ibuf EXCEPT ![d] = Put(@, c)]
    /\ lock' = [lock EXCEPT ![d] = ~Full(ibuf[d]) /\ c \notin High]
    /\ UNCHANGED <<owner, obuf, call, waiting, state, status>>

(* devfs_driver_getc.                                                      *)
DriverGetc(p, d) ==
    /\ Reaches(p, d) /\ ~lock[d]
    /\ obuf' = IF Empty(obuf[d]) THEN obuf ELSE [obuf EXCEPT ![d] = Get(@)]
    /\ UNCHANGED <<owner, ibuf, lock, call, waiting, state, status>>

Begin(op, d, n) == call' = [op |-> op, dev |-> d, left |-> n, done |-> 0]

(* devfs_driver_write takes the lock.                                      *)
DriverWrite(p, d, n) ==
    /\ Reaches(p, d) /\ ~lock[d]
    /\ lock' = [lock EXCEPT ![d] = TRUE]
    /\ Begin("driver_write", d, n)
    /\ UNCHANGED <<owner, ibuf, obuf, waiting, state, status>>

(* One round of a loop that stored the byte c: a negative one ends it.     *)
AfterByte(c) ==
    IF c \in High THEN [call EXCEPT !.left = 0]
    ELSE [call EXCEPT !.left = @ - 1, !.done = @ + 1]

DriverWriteByte(c) ==
    /\ call.op = "driver_write" /\ call.left > 0 /\ ~Full(ibuf[call.dev])
    /\ ibuf' = [ibuf EXCEPT ![call.dev] = Put(@, c)]
    /\ call' = AfterByte(c)
    /\ UNCHANGED <<owner, obuf, lock, waiting, state, status>>

(* The end of the loop, or the return from it.                             *)
DriverWriteEnd ==
    /\ call.op = "driver_write" /\ (call.left = 0 \/ Full(ibuf[call.dev]))
    /\ lock' = [lock EXCEPT ![call.dev] = FALSE]
    /\ call' = NoCall
    /\ UNCHANGED <<owner, ibuf, obuf, waiting, state, status>>

(* devfs_read with an empty buffer: the task is TASK_BLOCKED and switched  *)
(* away, ...                                                               *)
ReadBlocks(p, d, n) ==
    /\ Ready(p) /\ owner[d] # Nil /\ Length(ibuf[d]) = 0
    /\ waiting' = [waiting EXCEPT ![p] = [dev |-> d, count |-> n]]
    /\ state' = [state EXCEPT ![p] = "blocked"]
    /\ UNCHANGED <<owner, ibuf, obuf, lock, call, status>>

(* ... or, without memory for the list of waiting tasks, is TASK_BLOCKED   *)
(* but goes on; the tick that takes the CPU away makes it TASK_READY; ...  *)
ReadNoMemory(p, d) ==
    /\ Ready(p) /\ owner[d] # Nil /\ Length(ibuf[d]) = 0
    /\ state' = [state EXCEPT ![p] = "marked"]
    /\ UNCHANGED <<owner, ibuf, obuf, lock, call, waiting, status>>

Preempted(p) ==
    /\ status = "ok" /\ call.op = "none" /\ state[p] = "marked"
    /\ state' = [state EXCEPT ![p] = "ready"]
    /\ UNCHANGED <<owner, ibuf, obuf, lock, call, waiting, status>>

(* ... it goes round its loop when it is made TASK_READY again, ...        *)
ReadResumesOnce(p) ==
    /\ status = "ok" /\ call.op = "none" /\ waiting[p] # Nil /\ state[p] = "ready"
    /\ waiting' = [waiting EXCEPT ![p] = Nil]
    /\ Begin("read", waiting[p].dev, waiting[p].count)
    /\ UNCHANGED <<owner, ibuf, obuf, lock, state, status>>
ReadResumes(p) ==
    /\ status = "ok" /\ call.op = "none" /\ waiting[p] # Nil /\ state[p] = "ready"
    /\ IF Length(ibuf[waiting[p].dev]) = 0
       THEN state' = [state EXCEPT ![p] = "blocked"] /\ UNCHANGED <<call, waiting>>
       ELSE /\ waiting' = [waiting EXCEPT ![p] = Nil]
            /\ Begin("read", waiting[p].dev, waiting[p].count)
            /\ UNCHANGED state
    /\ UNCHANGED <<owner, ibuf, obuf, lock, status>>

(* ... and otherwise takes bytes until it has n or there are no more.      *)
Read(p, d, n) ==
    /\ Ready(p) /\ owner[d] # Nil /\ Length(ibuf[d]) # 0
    /\ Begin("read", d, n)
    /\ UNCHANGED <<owner, ibuf, obuf, lock, waiting, state, status>>

ReadByte ==
    /\ call.op = "read" /\ call.left > 0 /\ ~Empty(ibuf[call.dev])
    /\ ibuf' = [ibuf EXCEPT ![call.dev] = Get(@)]
    /\ call' = [call EXCEPT !.left = @ - 1, !.done = @ + 1]
    /\ UNCHANGED <<owner, obuf, lock, waiting, state, status>>

ReadEnd ==
    /\ call.op = "read" /\ (call.left = 0 \/ Empty(ibuf[call.dev]))
    /\ call' = NoCall
    /\ UNCHANGED <<owner, ibuf, obuf, lock, waiting, state, status>>

(* devfs_write: 0 if the buffer is full, ...                               *)
Write(p, d, n) ==
    /\ Ready(p) /\ owner[d] # Nil
    /\ IF Available(obuf[d]) THEN Begin("write", d, n) ELSE UNCHANGED call
    /\ UNCHANGED <<owner, ibuf, obuf, lock, waiting, state, status>>

(* ... otherwise its loop, which a full buffer or a negative byte ends ... *)
WriteByte(c) ==
    /\ call.op = "write" /\ call.left > 0 /\ ~Full(obuf[call.dev])
    /\ obuf' = [obuf EXCEPT ![call.dev] = Put(@, c)]
    /\ call' = AfterByte(c)
    /\ UNCHANGED <<owner, ibuf, lock, waiting, state, status>>

(* ... and then the task of the driver is made ready.                      *)
WriteEnd ==
    /\ call.op = "write" /\ (call.left = 0 \/ Full(obuf[call.dev]))
    /\ state' = [state EXCEPT ![owner[call.dev]] = "ready"]
    /\ call' = NoCall
    /\ UNCHANGED <<owner, ibuf, obuf, lock, waiting, status>>

StepOf(p) ==
    \/ RegisterDevice(p)
    \/ Preempted(p) \/ ReadResumes(p)
    \/ \E d \in Devs :
          \/ Hang(p, d)
          \/ \E c \in Bytes : DriverPutc(p, d, c)
          \/ DriverGetc(p, d)
          \/ ReadNoMemory(p, d)
          \/ \E n \in 0 .. MaxCount : DriverWrite(p, d, n) \/ Read(p, d, n) \/ ReadBlocks(p, d, n)
                                  \/ Write(p, d, n)

InCall ==
    \/ \E c \in Bytes : DriverWriteByte(c) \/ WriteByte(c)
    \/ DriverWriteEnd
    \/ ReadByte \/ ReadEnd
    \/ WriteEnd

Next == InCall \/ \E p \in Procs : StepOf(p)

Spec == Init /\ [][Next]_vars

-----------------------------------------------------------------------------
(* The bytes in a ring, oldest first.                                      *)
Contents(r) ==
    [i \in 1 .. Length(r) |->
        LET j == r.head + i - 1 IN r.buf[IF j < BufSize THEN j ELSE j - BufSize]]

Queues(rings) == [d \in Devs |-> Contents(rings[d])]

IQueue == INSTANCE ByteQueue WITH Cap <- BufSize - 1, q <- Queues(ibuf)
OQueue == INSTANCE ByteQueue WITH Cap <- BufSize - 1, q <- Queues(obuf)

(* Both buffers of every device are first-in first-out queues of           *)
(* BufSize - 1 bytes: no byte is lost, duplicated or reordered, wherever   *)
(* the indices are when they wrap, whatever calls are mixed, and from any  *)
(* position left in the memory (the _chr_* functions and their callers).   *)
InputIsQueue == IQueue!Spec
OutputIsQueue == OQueue!Spec

(* devfs_read never returns without data when data was asked for, also     *)
(* when a write to the device woke its driver for something else, or       *)
(* another task took the bytes first (the while of devfs_read).            *)
ReadGivesData ==
    [][call.op = "read" /\ call'.op # "read" => call.done > 0 \/ call.left = 0]_vars

(* The kernel never hangs in a spin_lock: "Put the line into the input     *)
(* buffer of the console device" (console.c) puts one byte after another   *)
(* (devfs_driver_putc).                                                    *)
NoHang == status # "hung"
=============================================================================
