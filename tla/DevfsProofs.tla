---------------------------- MODULE DevfsProofs ----------------------------
(***************************************************************************)
(* Proofs about the character devices, for any number of devices and       *)
(* processes and every size of the buffers: both ring buffers of a device  *)
(* are queues of bytes, and a read returns data.                           *)
(***************************************************************************)
EXTENDS Devfs, SequenceTheorems, TLAPS

Ring == [head : Index, tail : Index, buf : [Index -> Bytes]]

Calls == [op : {"none", "driver_write", "read", "write"}, dev : Devs, left : Nat, done : Nat]

(* The types that the rings depend on, and: a read that has no bytes yet   *)
(* finds the buffer as it was when the read started, not empty.            *)
DevInv ==
    /\ ibuf \in [Devs -> Ring] /\ obuf \in [Devs -> Ring]
    /\ call \in Calls
    /\ waiting \in [Procs -> {Nil} \cup [dev : Devs, count : Nat]]
    /\ call.op = "read" => call.done > 0 \/ ~Empty(ibuf[call.dev])

-----------------------------------------------------------------------------
(* Facts about a ring.                                                     *)

(* The cell of the i-th byte.                                              *)
Cell(r, i) == LET j == r.head + i - 1 IN IF j < BufSize THEN j ELSE j - BufSize

LEMMA RingLength ==
    ASSUME NEW r \in Ring
    PROVE  /\ Length(r) \in 0 .. BufSize - 1
           /\ Length(r) = 0 <=> Empty(r)
           /\ Length(r) = BufSize - 1 <=> Full(r)
  BY DevfsAssumption DEF Ring, Index, Length, Empty, Full, Succ

LEMMA RingContents ==
    ASSUME NEW r \in Ring
    PROVE  /\ Contents(r) \in [1 .. Length(r) -> Bytes]
           /\ Contents(r) \in Seq(Bytes) /\ Len(Contents(r)) = Length(r)
           /\ \A i \in 1 .. Length(r) : Cell(r, i) \in Index /\ Contents(r)[i] = r.buf[Cell(r, i)]
<1>1. Length(r) \in 0 .. BufSize - 1 /\ BufSize \in Nat
  BY RingLength, DevfsAssumption
<1>2. \A i \in 1 .. Length(r) : Cell(r, i) \in Index
  BY <1>1 DEF Cell, Ring, Index
<1>3. /\ DOMAIN Contents(r) = 1 .. Length(r)
      /\ \A i \in 1 .. Length(r) : Contents(r)[i] = r.buf[Cell(r, i)]
  BY DEF Contents, Cell
<1>4. Contents(r) \in [1 .. Length(r) -> Bytes]
  BY <1>2, <1>3 DEF Ring, Contents
<1>. DEFINE s == Contents(r)  n == Length(r)
<1>5. n \in Nat /\ s \in [1 .. n -> Bytes]
  BY <1>1, <1>4
<1>. HIDE DEF s, n
<1>6. s \in Seq(Bytes)
  BY <1>5
<1>7. Len(s) = n
  BY <1>5, <1>6, LenProperties
<1>. QED
  BY <1>2, <1>3, <1>4, <1>6, <1>7 DEF s, n

(* Storing a byte in a ring that is not full appends it.                   *)
LEMMA RingPut ==
    ASSUME NEW r \in Ring, NEW c \in Bytes, ~Full(r)
    PROVE  /\ Put(r, c) \in Ring
           /\ Length(r) < BufSize - 1
           /\ Contents(Put(r, c)) = Append(Contents(r), c)
<1>. DEFINE q == Put(r, c)  s == Contents(r)  t == Contents(q)  n == Length(r)
            u == Append(s, c)
<1>1. q \in Ring
  BY DevfsAssumption DEF Put, Ring, Index, Succ
<1>2. n \in Nat /\ n < BufSize - 1 /\ BufSize \in Nat
  BY RingLength, DevfsAssumption
<1>3. Length(q) = n + 1
  <2>1. /\ q.head = r.head /\ q.tail = Succ(r.tail) /\ r.head # Succ(r.tail)
        /\ r.head \in Index /\ r.tail \in Index
    BY DEF Put, Ring, Full
  <2>. QED
    BY <1>2, <2>1 DEF Index, Length, Succ
<1>4. ASSUME NEW i \in 1 .. n PROVE Cell(q, i) = Cell(r, i) /\ Cell(r, i) # r.tail
  BY <1>2 DEF Cell, Put, Ring, Index, Length
<1>5. Cell(q, n + 1) = r.tail
  BY <1>2 DEF Cell, Put, Ring, Index, Length
<1>6. q.buf = [r.buf EXCEPT ![r.tail] = c] /\ r.buf \in [Index -> Bytes] /\ r.tail \in Index
  BY DEF Put, Ring
<1>7. /\ s \in Seq(Bytes) /\ Len(s) = n
      /\ \A i \in 1 .. n : Cell(r, i) \in Index /\ s[i] = r.buf[Cell(r, i)]
  BY RingContents
<1>8. /\ t \in Seq(Bytes) /\ Len(t) = n + 1
      /\ \A i \in 1 .. n + 1 : t[i] = q.buf[Cell(q, i)]
  BY <1>1, <1>3, RingContents
<1>. HIDE DEF q, s, t, n
<1>9. ASSUME NEW i \in 1 .. n PROVE t[i] = s[i]
  BY <1>2, <1>4, <1>6, <1>7, <1>8
<1>10. t[n + 1] = c
  BY <1>2, <1>5, <1>6, <1>8
<1>11. /\ u \in Seq(Bytes) /\ Len(u) = n + 1
       /\ \A i \in 1 .. n : u[i] = s[i]
       /\ u[n + 1] = c
  BY <1>7, AppendProperties
<1>. HIDE DEF u
<1>12. \A i \in 1 .. n + 1 : t[i] = u[i]
  BY <1>2, <1>9, <1>10, <1>11
<1>13. t = u
  BY <1>8, <1>11, <1>12, SeqEqual
<1>. QED
  BY <1>1, <1>2, <1>13 DEF q, s, t, n, u

(* Taking a byte from a ring that is not empty leaves the others.          *)
LEMMA RingGet ==
    ASSUME NEW r \in Ring, ~Empty(r)
    PROVE  /\ Get(r) \in Ring
           /\ Contents(r) # << >>
           /\ Contents(Get(r)) = Tail(Contents(r))
<1>. DEFINE q == Get(r)  s == Contents(r)  t == Contents(q)  n == Length(r)
            u == Tail(s)
<1>1. q \in Ring
  BY DevfsAssumption DEF Get, Ring, Index, Succ
<1>2. n \in Nat /\ n > 0 /\ n < BufSize /\ BufSize \in Nat
  BY RingLength, DevfsAssumption
<1>3. Length(q) = n - 1
  BY <1>2 DEF Get, Ring, Index, Length, Succ, Empty
<1>4. ASSUME NEW i \in 1 .. n - 1 PROVE Cell(q, i) = Cell(r, i + 1)
  BY <1>2 DEF Cell, Get, Ring, Index, Length, Succ
<1>5. q.buf = r.buf
  BY DEF Get
<1>6. /\ s \in Seq(Bytes) /\ Len(s) = n
      /\ \A i \in 1 .. n : s[i] = r.buf[Cell(r, i)]
  BY RingContents
<1>7. /\ t \in Seq(Bytes) /\ Len(t) = n - 1
      /\ \A i \in 1 .. n - 1 : t[i] = q.buf[Cell(q, i)]
  BY <1>1, <1>3, RingContents
<1>. HIDE DEF q, s, t, n
<1>8. s # << >>
  BY <1>2, <1>6
<1>9. /\ u \in Seq(Bytes) /\ Len(u) = n - 1
      /\ \A i \in 1 .. n - 1 : u[i] = s[i + 1]
  BY <1>6, <1>8, HeadTailProperties
<1>. HIDE DEF u
<1>10. ASSUME NEW i \in 1 .. n - 1 PROVE t[i] = u[i]
  <2>1. i + 1 \in 1 .. n
    BY <1>2
  <2>. QED
    BY <1>4, <1>5, <1>6, <1>7, <1>9, <2>1
<1>11. t = u
  BY <1>7, <1>9, <1>10, SeqEqual
<1>. QED
  BY <1>1, <1>8, <1>11 DEF q, s, t, n, u

-----------------------------------------------------------------------------
(* The same for the rings of all devices.                                  *)

Appended(f, g, d, c) ==
    /\ Len(Queues(f)[d]) < BufSize - 1
    /\ Queues(g) = [Queues(f) EXCEPT ![d] = Append(@, c)]

LEMMA QueuesPut ==
    ASSUME NEW f \in [Devs -> Ring], NEW d \in Devs, NEW c \in Bytes, ~Full(f[d]),
           NEW g, g = [f EXCEPT ![d] = Put(@, c)]
    PROVE  /\ g \in [Devs -> Ring]
           /\ Appended(f, g, d, c)
<1>1. f[d] \in Ring
  OBVIOUS
<1>2. /\ Put(f[d], c) \in Ring /\ Length(f[d]) < BufSize - 1
      /\ Contents(Put(f[d], c)) = Append(Contents(f[d]), c)
  BY <1>1, RingPut
<1>3. Len(Contents(f[d])) = Length(f[d])
  BY <1>1, RingContents
<1>4. g \in [Devs -> Ring]
  BY <1>2
<1>5. Appended(f, g, d, c)
  BY <1>2, <1>3, <1>4 DEF Appended, Queues
<1>. QED
  BY <1>4, <1>5

LEMMA QueuesGet ==
    ASSUME NEW f \in [Devs -> Ring], NEW d \in Devs, ~Empty(f[d]),
           NEW g, g = [f EXCEPT ![d] = Get(@)]
    PROVE  /\ g \in [Devs -> Ring]
           /\ Queues(f)[d] # << >>
           /\ Queues(g) = [Queues(f) EXCEPT ![d] = Tail(@)]
<1>1. f[d] \in Ring
  OBVIOUS
<1>2. /\ Get(f[d]) \in Ring /\ Contents(f[d]) # << >>
      /\ Contents(Get(f[d])) = Tail(Contents(f[d]))
  BY <1>1, RingGet
<1>3. g \in [Devs -> Ring]
  BY <1>2
<1>. QED
  BY <1>2, <1>3 DEF Queues

(* What a step may do to the rings of one side: nothing, or one byte goes  *)
(* into or out of one ring.                                                *)
RingStep(f, g) ==
    \/ g = f
    \/ \E d \in Devs : \E c \in Bytes : ~Full(f[d]) /\ g = [f EXCEPT ![d] = Put(@, c)]
    \/ \E d \in Devs : ~Empty(f[d]) /\ g = [f EXCEPT ![d] = Get(@)]

LEMMA RingsTyped ==
    ASSUME NEW f \in [Devs -> Ring], NEW g, RingStep(f, g) PROVE g \in [Devs -> Ring]
<1>1. CASE g = f
  BY <1>1
<1>2. ASSUME NEW d \in Devs, NEW c \in Bytes, ~Full(f[d]), g = [f EXCEPT ![d] = Put(@, c)]
      PROVE  g \in [Devs -> Ring]
  BY <1>2, QueuesPut, Zenon
<1>3. ASSUME NEW d \in Devs, ~Empty(f[d]), g = [f EXCEPT ![d] = Get(@)]
      PROVE  g \in [Devs -> Ring]
  BY <1>3, QueuesGet, Zenon
<1>. QED
  BY <1>1, <1>2, <1>3 DEF RingStep

LEMMA InputStep ==
    ASSUME ibuf \in [Devs -> Ring], RingStep(ibuf, ibuf')
    PROVE  IQueue!Next \/ UNCHANGED Queues(ibuf)
<1>1. CASE ibuf' = ibuf
  BY <1>1 DEF Queues
<1>2. ASSUME NEW d \in Devs, NEW c \in Bytes, ~Full(ibuf[d]), ibuf' = [ibuf EXCEPT ![d] = Put(@, c)]
      PROVE  IQueue!Put(d, c)
  <2>1. Appended(ibuf, ibuf', d, c)
    BY <1>2, QueuesPut
  <2>. QED
    BY <2>1 DEF Appended, IQueue!Put
<1>3. ASSUME NEW d \in Devs, ~Empty(ibuf[d]), ibuf' = [ibuf EXCEPT ![d] = Get(@)]
      PROVE  IQueue!Get(d)
  BY <1>3, QueuesGet DEF IQueue!Get
<1>. QED
  BY <1>1, <1>2, <1>3 DEF RingStep, IQueue!Next

LEMMA OutputStep ==
    ASSUME obuf \in [Devs -> Ring], RingStep(obuf, obuf')
    PROVE  OQueue!Next \/ UNCHANGED Queues(obuf)
<1>1. CASE obuf' = obuf
  BY <1>1 DEF Queues
<1>2. ASSUME NEW d \in Devs, NEW c \in Bytes, ~Full(obuf[d]), obuf' = [obuf EXCEPT ![d] = Put(@, c)]
      PROVE  OQueue!Put(d, c)
  <2>1. Appended(obuf, obuf', d, c)
    BY <1>2, QueuesPut
  <2>. QED
    BY <2>1 DEF Appended, OQueue!Put
<1>3. ASSUME NEW d \in Devs, ~Empty(obuf[d]), obuf' = [obuf EXCEPT ![d] = Get(@)]
      PROVE  OQueue!Get(d)
  BY <1>3, QueuesGet DEF OQueue!Get
<1>. QED
  BY <1>1, <1>2, <1>3 DEF RingStep, OQueue!Next

-----------------------------------------------------------------------------
(* The steps of the devices.                                               *)

Steps == RingStep(ibuf, ibuf') /\ RingStep(obuf, obuf')

(* A step that leaves the rings and the call alone.                        *)
LEMMA QuietStep ==
    ASSUME DevInv, UNCHANGED <<ibuf, obuf, call, waiting>> PROVE DevInv' /\ Steps
  BY DEF DevInv, Steps, RingStep, Empty

(* A call begins, from nothing or with a buffer that is not empty.         *)
LEMMA BeginStep ==
    ASSUME DevInv, UNCHANGED <<ibuf, obuf>>, NEW d \in Devs, NEW n \in Nat,
           NEW op \in {"driver_write", "read", "write"}, Begin(op, d, n),
           op = "read" => ~Empty(ibuf[d]),
           waiting' \in [Procs -> {Nil} \cup [dev : Devs, count : Nat]]
    PROVE  DevInv' /\ Steps
  BY DEF DevInv, Steps, RingStep, Empty, Begin, Calls

LEMMA EndStep ==
    ASSUME DevInv, UNCHANGED <<ibuf, obuf, waiting>>, call' = NoCall PROVE DevInv' /\ Steps
  BY DevfsAssumption DEF DevInv, Steps, RingStep, NoCall, Calls

(* A byte of the call in progress goes into or out of a ring.              *)
LEMMA ByteCall ==
    ASSUME DevInv, call.left > 0, NEW c \in Bytes
    PROVE  /\ call.dev \in Devs /\ AfterByte(c) \in Calls /\ AfterByte(c).op = call.op
           /\ [call EXCEPT !.left = @ - 1, !.done = @ + 1] \in Calls
           /\ call.done + 1 > 0
<1>1. /\ call \in Calls /\ call.dev \in Devs
      /\ call.left - 1 \in Nat /\ call.done + 1 \in Nat /\ call.done + 1 > 0
  BY DEF DevInv, Calls
<1>2. /\ [call EXCEPT !.left = @ - 1, !.done = @ + 1] \in Calls
      /\ [call EXCEPT !.left = @ - 1, !.done = @ + 1].op = call.op
  BY <1>1 DEF Calls
<1>3. [call EXCEPT !.left = 0] \in Calls /\ [call EXCEPT !.left = 0].op = call.op
  BY <1>1 DEF Calls
<1>. QED
  BY <1>1, <1>2, <1>3 DEF AfterByte

LEMMA DriverWriteByteStep ==
    ASSUME DevInv, NEW c \in Bytes, DriverWriteByte(c) PROVE DevInv' /\ Steps
<1>1. /\ call.dev \in Devs /\ call' \in Calls /\ call'.op = "driver_write"
  BY ByteCall DEF DriverWriteByte
<1>2. RingStep(ibuf, ibuf') /\ obuf' = obuf /\ waiting' = waiting
  BY <1>1 DEF DriverWriteByte, RingStep
<1>3. ibuf' \in [Devs -> Ring]
  BY <1>2, RingsTyped DEF DevInv
<1>. QED
  BY <1>1, <1>2, <1>3 DEF DevInv, Steps, RingStep

LEMMA WriteByteStep ==
    ASSUME DevInv, NEW c \in Bytes, WriteByte(c) PROVE DevInv' /\ Steps
<1>1. /\ call.dev \in Devs /\ call' \in Calls /\ call'.op = "write"
  BY ByteCall DEF WriteByte
<1>2. RingStep(obuf, obuf') /\ ibuf' = ibuf /\ waiting' = waiting
  BY <1>1 DEF WriteByte, RingStep
<1>3. obuf' \in [Devs -> Ring]
  BY <1>2, RingsTyped DEF DevInv
<1>. QED
  BY <1>1, <1>2, <1>3 DEF DevInv, Steps, RingStep

LEMMA ReadByteStep == ASSUME DevInv, ReadByte PROVE DevInv' /\ Steps
<1>1. /\ call.dev \in Devs /\ call' \in Calls /\ call'.done > 0
  <2>1. PICK c \in Bytes : TRUE
    BY DevfsAssumption
  <2>2. call \in Calls /\ call' = [call EXCEPT !.left = @ - 1, !.done = @ + 1]
    BY DEF ReadByte, DevInv
  <2>3. call'.done = call.done + 1
    BY <2>2 DEF Calls
  <2>. QED
    BY <2>1, <2>2, <2>3, ByteCall DEF ReadByte
<1>2. RingStep(ibuf, ibuf') /\ obuf' = obuf /\ waiting' = waiting
  BY <1>1 DEF ReadByte, RingStep
<1>3. ibuf' \in [Devs -> Ring]
  BY <1>2, RingsTyped DEF DevInv
<1>. QED
  BY <1>1, <1>2, <1>3 DEF DevInv, Steps, RingStep

LEMMA DriverPutcStep ==
    ASSUME DevInv, NEW p \in Procs, NEW d \in Devs, NEW c \in Bytes, DriverPutc(p, d, c)
    PROVE  DevInv' /\ Steps
<1>1. RingStep(ibuf, ibuf') /\ obuf' = obuf /\ waiting' = waiting /\ call' = call
  BY DEF DriverPutc, RingStep
<1>2. ibuf' \in [Devs -> Ring]
  BY <1>1, RingsTyped DEF DevInv
<1>3. call.op = "none"
  BY DEF DriverPutc, Reaches, Ready
<1>. QED
  BY <1>1, <1>2, <1>3 DEF DevInv, Steps, RingStep

LEMMA DriverGetcStep ==
    ASSUME DevInv, NEW p \in Procs, NEW d \in Devs, DriverGetc(p, d) PROVE DevInv' /\ Steps
<1>1. RingStep(obuf, obuf') /\ ibuf' = ibuf /\ waiting' = waiting /\ call' = call
  BY DEF DriverGetc, RingStep
<1>2. obuf' \in [Devs -> Ring]
  BY <1>1, RingsTyped DEF DevInv
<1>. QED
  BY <1>1, <1>2 DEF DevInv, Steps, RingStep

LEMMA ReadResumesStep == ASSUME DevInv, NEW p \in Procs, ReadResumes(p) PROVE DevInv' /\ Steps
<1>. DEFINE w == waiting[p]
<1>1. w.dev \in Devs /\ w.count \in Nat
  BY DEF ReadResumes, DevInv
<1>2. ibuf[w.dev] \in Ring
  BY <1>1 DEF DevInv
<1>3. CASE Length(ibuf[w.dev]) = 0
  BY <1>3, QuietStep DEF ReadResumes
<1>4. CASE Length(ibuf[w.dev]) # 0
  <2>1. ~Empty(ibuf[w.dev])
    BY <1>2, <1>4, RingLength
  <2>2. waiting' = [waiting EXCEPT ![p] = Nil] /\ Begin("read", w.dev, w.count)
    BY <1>4 DEF ReadResumes
  <2>3. waiting' \in [Procs -> {Nil} \cup [dev : Devs, count : Nat]]
    BY <2>2 DEF DevInv
  <2>. QED
    BY <1>1, <2>1, <2>2, <2>3, BeginStep DEF ReadResumes
<1>. QED
  BY <1>3, <1>4

LEMMA CountedStep ==
    ASSUME DevInv, NEW p \in Procs, NEW d \in Devs, NEW n \in Nat,
           DriverWrite(p, d, n) \/ Read(p, d, n) \/ ReadBlocks(p, d, n) \/ Write(p, d, n)
    PROVE  DevInv' /\ Steps
<1>1. waiting \in [Procs -> {Nil} \cup [dev : Devs, count : Nat]] /\ ibuf[d] \in Ring
  BY DEF DevInv
<1>2. CASE DriverWrite(p, d, n)
  BY <1>1, <1>2, BeginStep DEF DriverWrite
<1>3. CASE Read(p, d, n)
  <2>1. ~Empty(ibuf[d])
    BY <1>1, <1>3, RingLength DEF Read
  <2>. QED
    BY <1>1, <1>3, <2>1, BeginStep DEF Read
<1>4. CASE ReadBlocks(p, d, n)
  <2>1. waiting' \in [Procs -> {Nil} \cup [dev : Devs, count : Nat]]
    BY <1>1, <1>4 DEF ReadBlocks
  <2>. QED
    BY <1>4, <2>1 DEF ReadBlocks, DevInv, Steps, RingStep, Empty
<1>5. CASE Write(p, d, n)
  <2>1. CASE Available(obuf[d])
    BY <1>1, <1>5, <2>1, BeginStep DEF Write
  <2>2. CASE ~Available(obuf[d])
    BY <1>5, <2>2, QuietStep DEF Write
  <2>. QED
    BY <2>1, <2>2
<1>. QED
  BY <1>2, <1>3, <1>4, <1>5

LEMMA DevStep == DevInv /\ [Next]_vars => DevInv' /\ Steps
<1>. SUFFICES ASSUME DevInv, [Next]_vars PROVE DevInv' /\ Steps
  OBVIOUS
<1>1. CASE UNCHANGED vars
  BY <1>1, QuietStep DEF vars
<1>2. CASE InCall
  <2>1. CASE DriverWriteEnd \/ ReadEnd \/ WriteEnd
    BY <2>1, EndStep DEF DriverWriteEnd, ReadEnd, WriteEnd
  <2>. QED
    BY <1>2, <2>1, DriverWriteByteStep, WriteByteStep, ReadByteStep DEF InCall
<1>3. ASSUME NEW p \in Procs, StepOf(p) PROVE DevInv' /\ Steps
  <2>1. CASE RegisterDevice(p) \/ Preempted(p) \/ \E d \in Devs : Hang(p, d) \/ ReadNoMemory(p, d)
    BY <2>1, QuietStep DEF RegisterDevice, Preempted, Hang, ReadNoMemory
  <2>2. CASE \E d \in Devs : \E n \in 0 .. MaxCount :
                DriverWrite(p, d, n) \/ Read(p, d, n) \/ ReadBlocks(p, d, n) \/ Write(p, d, n)
    <3>1. 0 .. MaxCount \subseteq Nat
      BY DevfsAssumption
    <3>. QED
      BY <2>2, <3>1, CountedStep
  <2>. QED
    BY <1>3, <2>1, <2>2, ReadResumesStep, DriverPutcStep, DriverGetcStep DEF StepOf
<1>. QED
  BY <1>1, <1>2, <1>3 DEF Next

LEMMA RingsInit ==
    ASSUME NEW f \in [Devs -> LeftInMemory]
    PROVE  /\ f \in [Devs -> Ring]
           /\ Queues(f) \in [Devs -> {s \in Seq(Bytes) : Len(s) <= BufSize - 1}]
<1>1. f \in [Devs -> Ring]
  BY DEF LeftInMemory, Ring
<1>2. ASSUME NEW d \in Devs PROVE Contents(f[d]) \in Seq(Bytes) /\ Len(Contents(f[d])) <= BufSize - 1
  <2>1. f[d] \in Ring
    BY <1>1
  <2>. QED
    BY <2>1, RingContents, RingLength, DevfsAssumption
<1>. QED
  BY <1>1, <1>2 DEF Queues

LEMMA DevInit == Init => DevInv /\ IQueue!Init /\ OQueue!Init
<1>. SUFFICES ASSUME Init PROVE DevInv /\ IQueue!Init /\ OQueue!Init
  OBVIOUS
<1>1. ibuf \in [Devs -> Ring] /\ IQueue!Init
  BY RingsInit DEF Init, IQueue!Init
<1>2. obuf \in [Devs -> Ring] /\ OQueue!Init
  BY RingsInit DEF Init, OQueue!Init
<1>3. call \in Calls /\ call.op = "none"
  BY DevfsAssumption DEF Init, NoCall, Calls
<1>. QED
  BY <1>1, <1>2, <1>3 DEF Init, DevInv

-----------------------------------------------------------------------------
(* For any number of devices and processes and every size of the buffers,  *)
(* the input buffer of each device is a queue: no byte is lost, duplicated *)
(* or reordered (_chr_ibuf_putc, _chr_ibuf_getc and their callers).        *)
THEOREM InputQueues == Spec => InputIsQueue
<1>1. Init => DevInv /\ IQueue!Init
  BY DevInit
<1>2. DevInv /\ [Next]_vars => DevInv' /\ [IQueue!Next]_(Queues(ibuf))
  BY DevStep, InputStep DEF DevInv, Steps
<1>. QED
  BY <1>1, <1>2, PTL DEF Spec, InputIsQueue, IQueue!Spec

(* The same for the output buffer (_chr_obuf_putc, _chr_obuf_getc).        *)
THEOREM OutputQueues == Spec => OutputIsQueue
<1>1. Init => DevInv /\ OQueue!Init
  BY DevInit
<1>2. DevInv /\ [Next]_vars => DevInv' /\ [OQueue!Next]_(Queues(obuf))
  BY DevStep, OutputStep DEF DevInv, Steps
<1>. QED
  BY <1>1, <1>2, PTL DEF Spec, OutputIsQueue, OQueue!Spec

(* For any number of readers and whatever wakes them, devfs_read returns   *)
(* without data only when none was asked for.                              *)
THEOREM ReadsGiveData == Spec => ReadGivesData
<1>1. Init => DevInv
  BY DevInit
<1>2. DevInv /\ [Next]_vars => DevInv'
  BY DevStep
<1>3. DevInv /\ [Next]_vars
        => [call.op = "read" /\ call'.op # "read" => call.done > 0 \/ call.left = 0]_vars
  <2>. SUFFICES ASSUME DevInv, Next, call.op = "read", call'.op # "read"
                PROVE  call.done > 0 \/ call.left = 0
    OBVIOUS
  <2>1. CASE ReadEnd
    BY <2>1 DEF ReadEnd, DevInv
  <2>2. CASE ~ReadEnd
    <3>1. InCall
      <4>1. ASSUME NEW p \in Procs, StepOf(p) PROVE call.op = "none" \/ call' = call
        BY <4>1 DEF StepOf, RegisterDevice, Preempted, ReadResumes, Hang, DriverPutc,
                    DriverGetc, ReadNoMemory, DriverWrite, Read, ReadBlocks, Write, Reaches, Ready
      <4>. QED
        BY <4>1 DEF Next
    <3>. QED
      BY <2>2, <3>1 DEF InCall, DriverWriteByte, WriteByte, DriverWriteEnd, ReadByte, WriteEnd,
                        DevInv, Calls
  <2>. QED
    BY <2>1, <2>2
<1>. QED
  BY <1>1, <1>2, <1>3, PTL DEF Spec, ReadGivesData
=============================================================================
