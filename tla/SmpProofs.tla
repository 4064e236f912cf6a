----------------------------- MODULE SmpProofs -----------------------------
(***************************************************************************)
(* Proofs about allocation in module Smp, for any number of processors:    *)
(* the free lists, of which one has a lock and the other has none, never   *)
(* hand a block out twice, and lose none.                                  *)
(***************************************************************************)
EXTENDS BootProofs

-----------------------------------------------------------------------------
(* The free list.  First, what the contexts have to do: arch_memory_new is *)
(* on the bootstrap processor only, and gives back a block it has.         *)

Ops == [op : {"take", "give"}, cache : Caches \cup {"page", "block"}]
       \cup {Ends("idle"), Ends("panic")}

Plain(s) == \A i \in 1 .. Len(s) : s[i] \notin {TakeBlock, GiveBlock} /\ s[i].cache # "data"

WithBlock(s, block) ==
    \A i \in 1 .. Len(s) :
        /\ s[i] = GiveBlock => i = 1 /\ block # 0 /\ \A k \in 1 .. Len(s) : s[k].op = "give"
        /\ s[i].op = "take" /\ s[i].cache \in {"pgt", "data"} =>
               block # 0 \/ \E j \in 1 .. i - 1 : s[j] = TakeBlock

TodoInv ==
    /\ todo \in [Contexts -> Seq(Ops)]
    /\ \A c \in Contexts \ {Bsp} : Plain(todo[c])
    /\ WithBlock(todo[Bsp], mine)

LEMMA OpsTyped ==
    /\ \A k \in Caches : Take(k) \in Ops /\ Give(k) \in Ops
    /\ TakeBlock \in Ops /\ GiveBlock \in Ops /\ TakePage \in Ops
    /\ Ends("idle") \in Ops /\ Ends("panic") \in Ops
  BY DEF Ops, Take, Give, TakeBlock, GiveBlock, TakePage, Ends

LEMMA TailPlain ==
    ASSUME NEW s \in Seq(Ops), s # << >>, Plain(s) PROVE Tail(s) \in Seq(Ops) /\ Plain(Tail(s))
  BY HeadTailProperties DEF Plain

(* One operation less to do, and what becomes of the block.                *)
LEMMA TailWithBlock ==
    ASSUME NEW s \in Seq(Ops), s # << >>, NEW m, NEW n, WithBlock(s, m),
           Head(s) = TakeBlock => n # 0,
           Head(s) \notin {TakeBlock, GiveBlock} => n = m
    PROVE  WithBlock(Tail(s), n)
<1>1. /\ Len(s) \in Nat \ {0} /\ Len(Tail(s)) = Len(s) - 1
      /\ \A i \in 1 .. Len(Tail(s)) : Tail(s)[i] = s[i + 1]
      /\ Head(s) = s[1]
  BY HeadTailProperties, EmptySeq
<1>2. TakeBlock # GiveBlock /\ TakeBlock.op = "take" /\ GiveBlock.op = "give"
  BY DEF TakeBlock, GiveBlock
<1>3. ASSUME NEW i \in 1 .. Len(Tail(s)) PROVE Tail(s)[i] # GiveBlock
  BY <1>1 DEF WithBlock
<1>4. ASSUME NEW i \in 1 .. Len(Tail(s)), Tail(s)[i].op = "take",
             Tail(s)[i].cache \in {"pgt", "data"}
      PROVE  n # 0 \/ \E j \in 1 .. i - 1 : Tail(s)[j] = TakeBlock
  <2>1. m # 0 \/ \E j \in 1 .. i : s[j] = TakeBlock
    BY <1>1, <1>4 DEF WithBlock
  <2>2. CASE Head(s) = TakeBlock
    BY <2>2
  <2>3. CASE Head(s) = GiveBlock
    BY <1>1, <1>4, <2>3, 1 \in 1 .. Len(s), i + 1 \in 1 .. Len(s) DEF WithBlock
  <2>4. CASE Head(s) # TakeBlock /\ Head(s) # GiveBlock
    <3>1. ASSUME NEW j \in 1 .. i, s[j] = TakeBlock
          PROVE  j - 1 \in 1 .. i - 1 /\ Tail(s)[j - 1] = TakeBlock
      BY <1>1, <2>4, <3>1
    <3>. QED
      BY <2>1, <2>4, <3>1
  <2>. QED
    BY <2>2, <2>3, <2>4
<1>. QED
  BY <1>3, <1>4 DEF WithBlock

LEMMA TodoStart == Init => TodoInv
<1>. SUFFICES ASSUME Init PROVE TodoInv
  OBVIOUS
<1>1. todo = [c \in Contexts |-> << >>] /\ Bsp \in Contexts
  BY SmpAssumption DEF Init, Contexts
<1>2. << >> \in Seq(Ops) /\ Len(<< >>) = 0
  BY EmptySeq
<1>. QED
  BY <1>1, <1>2 DEF TodoInv, Plain, WithBlock

(* An operation is over: the context has the others to do.                 *)
LEMMA TodoOver ==
    ASSUME TodoInv, NEW c \in Contexts, todo[c] # << >>, Over(c),
           Op(c) = TakeBlock => mine' # 0,
           Op(c) \notin {TakeBlock, GiveBlock} => mine' = mine
    PROVE  TodoInv'
<1>1. todo[c] \in Seq(Ops) /\ Tail(todo[c]) \in Seq(Ops)
  BY HeadTailProperties DEF TodoInv
<1>2. todo' = [todo EXCEPT ![c] = Tail(todo[c])]
  BY DEF Over
<1>3. CASE c = Bsp
  <2>1. WithBlock(Tail(todo[c]), mine')
    BY <1>1, <1>3, TailWithBlock DEF TodoInv, Op
  <2>. QED
    BY <1>1, <1>2, <1>3, <2>1 DEF TodoInv
<1>4. CASE c # Bsp
  <2>1. Plain(Tail(todo[c]))
    BY <1>1, <1>4, TailPlain DEF TodoInv
  <2>2. Op(c) \notin {TakeBlock, GiveBlock}
    BY <1>1, <1>4, EmptySeq DEF TodoInv, Plain, Op
  <2>. QED
    BY <1>1, <1>2, <1>4, <2>1, <2>2 DEF TodoInv
<1>. QED
  BY <1>3, <1>4

LEMMA TodoSet ==
    ASSUME TodoInv, NEW c \in Contexts, NEW s \in Seq(Ops), mine' = mine,
           todo' = [todo EXCEPT ![c] = s],
           c = Bsp => WithBlock(s, mine), c # Bsp => Plain(s)
    PROVE  TodoInv'
  BY DEF TodoInv

(* The lock of physical memory: a context in phys_mem_alloc has it.        *)
Within(c) == pc[c] \in {"phys", "unlink"} /\ ~Unlocked(c)

LockInv ==
    /\ pc \in [Contexts -> {"idle", "slab", "phys", "unlink"}]
    /\ \A c \in Contexts : pc[c] # "idle" => todo[c] # << >>
    /\ \A c \in Contexts : pc[c] = "slab" => Op(c).cache \in Caches
    /\ \A c \in Contexts : pc[c] = "phys" => ~Unlocked(c)
    /\ \A c \in Contexts : pc[c] \in {"phys", "unlink"} => Op(c).op = "take"
    /\ \A c, d \in Contexts : Within(c) /\ Within(d) => c = d
    /\ \A c \in Contexts : Within(c) => phys = 1

LEMMA LockStart == Init => LockInv
  BY DEF Init, LockInv, Within

(* Who does nothing keeps its part of the invariant.                       *)
LEMMA OthersKept ==
    ASSUME NEW c \in Contexts, todo \in [Contexts -> Seq(Ops)], NEW s,
           todo' = [todo EXCEPT ![c] = s]
    PROVE  \A d \in Contexts \ {c} : todo'[d] = todo[d] /\ Op(d)' = Op(d)
  BY DEF Op

LEMMA LockKept ==
    ASSUME LockInv, TodoInv, UNCHANGED <<pc, phys>>,
           NEW c \in Contexts, NEW s, pc[c] = "idle", todo' = [todo EXCEPT ![c] = s]
    PROVE  LockInv'
<1>1. \A d \in Contexts \ {c} : todo'[d] = todo[d] /\ Op(d)' = Op(d)
  BY OthersKept, Zenon DEF TodoInv
<1>2. \A d \in Contexts : Within(d)' => d # c /\ Within(d)
  BY <1>1 DEF Within, Unlocked
<1>. QED
  BY <1>1, <1>2 DEF LockInv, Unlocked

(* An operation ends, and with it the hold on the lock.                    *)
LEMMA LockOver ==
    ASSUME LockInv, TodoInv, NEW c \in Contexts, NEW s,
           todo' = [todo EXCEPT ![c] = s], pc' = [pc EXCEPT ![c] = "idle"],
           Within(c) \/ phys' = phys
    PROVE  LockInv'
<1>1. \A d \in Contexts \ {c} : todo'[d] = todo[d] /\ Op(d)' = Op(d)
  BY OthersKept, Zenon DEF TodoInv
<1>2. \A d \in Contexts : Within(d)' => d # c /\ Within(d)
  BY <1>1 DEF Within, LockInv, Unlocked
<1>. QED
  BY <1>1, <1>2 DEF LockInv, Unlocked

(* Two contexts are not in the list of one zone at a time: one zone has    *)
(* the lock, the other only the bootstrap processor.                       *)
LEMMA OneInList ==
    ASSUME TodoInv, LockInv, NEW c \in Contexts, NEW d \in Contexts, c # d,
           InList(c) \/ pc[c] = "unlink", pc[d] = "unlink"
    PROVE  Zone(c) # Zone(d)
<1>1. ASSUME NEW e \in Contexts, Unlocked(e), todo[e] # << >> PROVE e = Bsp
  <2>0. todo[e] \in Seq(Ops)
    BY DEF TodoInv
  <2>1. Op(e) = todo[e][1] /\ 1 \in 1 .. Len(todo[e])
    BY <1>1, <2>0, EmptySeq DEF Op
  <2>. QED
    BY <1>1, <2>1 DEF TodoInv, Plain, Unlocked
<1>2. todo[c] # << >> /\ todo[d] # << >>
  BY DEF LockInv, InList, At, Runs
<1>3. CASE Unlocked(c) /\ Unlocked(d)
  BY <1>1, <1>2, <1>3
<1>4. CASE ~Unlocked(c) /\ ~Unlocked(d)
  BY <1>4 DEF LockInv, Within, InList, At
<1>. QED
  BY <1>3, <1>4 DEF Zone

(* The lists of free blocks.                                               *)
Occurs(b, s) == \E i \in 1 .. Len(s) : s[i] = b
Once(s) == \A i, j \in 1 .. Len(s) : s[i] = s[j] => i = j
IsFree(b, lists) == \E z \in Zones : Occurs(b, lists[z])

ListInv ==
    /\ free \in [Zones -> Seq(Blocks)]
    /\ seen \in [Contexts -> Seq(Blocks)]
    /\ out \in [Blocks -> Int]
    /\ mine \in Blocks \cup {0}
    /\ \A c \in Contexts : pc[c] = "unlink" => seen[c] # << >> /\ seen[c] = free[Zone(c)]
    /\ ~IsFree(mine, free)
    /\ \A z \in Zones : Once(free[z])
    /\ \A b : ~(Occurs(b, free["numa"]) /\ Occurs(b, free["kernel"]))
    /\ \A b \in Blocks : out[b] = IF IsFree(b, free) THEN 0 ELSE 1

LEMMA ListStart == Init => ListInv
<1>. SUFFICES ASSUME Init PROVE ListInv
  OBVIOUS
<1>. DEFINE n == [i \in 1 .. NumaBlocks |-> i]
            k == [i \in 1 .. KernelBlocks |-> NumaBlocks + i]
<1>0. NumaBlocks \in Nat /\ KernelBlocks \in Nat
  BY SmpAssumption
<1>1. n \in Seq(Blocks) /\ Len(n) = NumaBlocks /\ \A i \in 1 .. NumaBlocks : n[i] = i
  BY <1>0, Z3 DEF Blocks
<1>2. /\ k \in Seq(Blocks) /\ Len(k) = KernelBlocks
      /\ \A i \in 1 .. KernelBlocks : k[i] = NumaBlocks + i
  BY <1>0, Z3 DEF Blocks
<1>. HIDE DEF n, k
<1>3. free = [z \in Zones |-> IF z = "numa" THEN n ELSE k]
  BY DEF Init, n, k
<1>4. /\ free \in [Zones -> Seq(Blocks)] /\ free["numa"] = n /\ free["kernel"] = k
      /\ \A z \in Zones : free[z] = n \/ free[z] = k
  BY <1>1, <1>2, <1>3 DEF Zones
<1>5. seen \in [Contexts -> Seq(Blocks)]
  <2>1. << >> \in Seq(Blocks)
    BY EmptySeq
  <2>2. seen = [c \in Contexts |-> << >>]
    BY DEF Init
  <2>. QED
    BY <2>1, <2>2
<1>6. /\ mine = 0 /\ out = [b \in Blocks |-> 0]
      /\ \A c \in Contexts : pc[c] # "unlink"
  BY DEF Init
<1>7. Once(n) /\ Once(k) /\ ~Occurs(0, n) /\ ~Occurs(0, k)
  BY <1>0, <1>1, <1>2 DEF Once, Occurs
<1>8. \A b : ~(Occurs(b, n) /\ Occurs(b, k))
  BY <1>0, <1>1, <1>2 DEF Occurs
<1>9. ASSUME NEW b \in Blocks PROVE IsFree(b, free)
  <2>1. CASE b \in 1 .. NumaBlocks
    BY <1>1, <1>4, <2>1 DEF IsFree, Occurs, Zones
  <2>2. CASE b - NumaBlocks \in 1 .. KernelBlocks
    <3>1. k[b - NumaBlocks] = b
      BY <1>0, <1>2, <2>2 DEF Blocks
    <3>. QED
      BY <1>2, <1>4, <2>2, <3>1 DEF IsFree, Occurs, Zones
  <2>. QED
    BY <1>0, <2>1, <2>2 DEF Blocks
<1>10. ~IsFree(mine, free)
  BY <1>4, <1>6, <1>7 DEF IsFree
<1>. QED
  BY <1>4, <1>5, <1>6, <1>7, <1>8, <1>9, <1>10 DEF ListInv

(* Steps outside the lists.                                                *)
LEMMA ListKept ==
    ASSUME ListInv, UNCHANGED <<free, seen, out, mine>>,
           \A c \in Contexts : pc'[c] = "unlink" => pc[c] = "unlink" /\ Zone(c)' = Zone(c)
    PROVE  ListInv'
  BY DEF ListInv

(* phys_mem_buddy_alloc reads the head.                                    *)
LEMMA ListRead ==
    ASSUME ListInv, LockInv, NEW c \in Contexts, ReadHead(c) PROVE ListInv'
<1>1. /\ pc \in [Contexts -> {"idle", "slab", "phys", "unlink"}]
      /\ seen \in [Contexts -> Seq(Blocks)] /\ free \in [Zones -> Seq(Blocks)]
      /\ Zone(c) \in Zones
  BY DEF LockInv, ListInv, Zone, Zones
<1>2. /\ pc' = [pc EXCEPT ![c] = "unlink"] /\ seen' = [seen EXCEPT ![c] = free[Zone(c)]]
      /\ free[Zone(c)] # << >> /\ UNCHANGED <<free, out, mine, todo>>
  BY DEF ReadHead
<1>3. \A d \in Contexts : Zone(d)' = Zone(d)
  BY <1>2 DEF Zone, Unlocked, Op
<1>4. seen' \in [Contexts -> Seq(Blocks)]
  BY <1>1, <1>2
<1>5. \A d \in Contexts : pc'[d] = "unlink" => seen'[d] # << >> /\ seen'[d] = free'[Zone(d)']
  BY <1>1, <1>2, <1>3 DEF ListInv
<1>. QED
  BY <1>2, <1>4, <1>5 DEF ListInv

LEMMA TailOnce ==
    ASSUME NEW s \in Seq(Blocks), s # << >>, Once(s)
    PROVE  /\ Head(s) \in Blocks /\ Tail(s) \in Seq(Blocks) /\ Once(Tail(s))
           /\ Occurs(Head(s), s) /\ ~Occurs(Head(s), Tail(s))
           /\ \A x : x # Head(s) => (Occurs(x, Tail(s)) <=> Occurs(x, s))
<1>1. /\ Len(s) \in Nat \ {0} /\ Len(Tail(s)) = Len(s) - 1
      /\ \A i \in 1 .. Len(Tail(s)) : Tail(s)[i] = s[i + 1]
      /\ Head(s) = s[1] /\ Head(s) \in Blocks /\ Tail(s) \in Seq(Blocks)
  BY HeadTailProperties, EmptySeq
<1>2. ASSUME NEW x, NEW i \in 1 .. Len(s), s[i] = x, x # Head(s)
      PROVE  i - 1 \in 1 .. Len(Tail(s)) /\ Tail(s)[i - 1] = x
  BY <1>1, <1>2
<1>3. ASSUME NEW x, NEW i \in 1 .. Len(Tail(s)), Tail(s)[i] = x
      PROVE  i + 1 \in 2 .. Len(s) /\ s[i + 1] = x
  BY <1>1, <1>3
<1>4. \A x : x # Head(s) => (Occurs(x, Tail(s)) <=> Occurs(x, s))
  BY <1>1, <1>2, <1>3 DEF Occurs
<1>5. Occurs(Head(s), s) /\ ~Occurs(Head(s), Tail(s))
  BY <1>1, <1>3 DEF Occurs, Once
<1>6. Once(Tail(s))
  BY <1>1 DEF Once
<1>. QED
  BY <1>1, <1>4, <1>5, <1>6

LEMMA ConsOnce ==
    ASSUME NEW s \in Seq(Blocks), NEW b \in Blocks, Once(s), ~Occurs(b, s)
    PROVE  /\ <<b>> \o s \in Seq(Blocks) /\ Once(<<b>> \o s) /\ Occurs(b, <<b>> \o s)
           /\ \A x : x # b => (Occurs(x, <<b>> \o s) <=> Occurs(x, s))
<1>. DEFINE t == <<b>> \o s
<1>1. <<b>> \in Seq(Blocks) /\ Len(<<b>>) = 1 /\ <<b>>[1] = b /\ Len(s) \in Nat
  BY LenProperties
<1>2. /\ t \in Seq(Blocks) /\ Len(t) = Len(s) + 1
      /\ \A i \in 1 .. Len(s) + 1 : t[i] = IF i = 1 THEN b ELSE s[i - 1]
  BY <1>1, ConcatProperties
<1>. HIDE DEF t
<1>3. Occurs(b, t)
  BY <1>1, <1>2 DEF Occurs
<1>4. ASSUME NEW x, NEW i \in 1 .. Len(s), s[i] = x
      PROVE  i + 1 \in 1 .. Len(t) /\ t[i + 1] = x
  BY <1>1, <1>2, <1>4
<1>5. ASSUME NEW x, NEW i \in 1 .. Len(t), t[i] = x, x # b
      PROVE  i - 1 \in 1 .. Len(s) /\ s[i - 1] = x
  BY <1>1, <1>2, <1>5
<1>6. ASSUME NEW i \in 1 .. Len(t), NEW j \in 1 .. Len(t), t[i] = t[j] PROVE i = j
  <2>1. \A h \in 1 .. Len(s) : s[h] # b
    BY DEF Occurs
  <2>2. CASE i = 1 \/ j = 1
    <3>1. t[i] = b /\ t[j] = b
      BY <1>1, <1>2, <1>6, <2>2
    <3>2. \A h \in 1 .. Len(t) : h # 1 => h - 1 \in 1 .. Len(s) /\ t[h] = s[h - 1]
      BY <1>1, <1>2
    <3>. QED
      BY <2>1, <3>1, <3>2
  <2>3. CASE i # 1 /\ j # 1
    <3>1. i - 1 \in 1 .. Len(s) /\ j - 1 \in 1 .. Len(s) /\ s[i - 1] = s[j - 1]
      BY <1>1, <1>2, <1>6, <2>3
    <3>. QED
      BY <3>1 DEF Once
  <2>. QED
    BY <2>2, <2>3
<1>7. Once(t)
  BY <1>6 DEF Once
<1>8. ASSUME NEW x, x # b PROVE Occurs(x, t) <=> Occurs(x, s)
  <2>1. ASSUME NEW i \in 1 .. Len(s), s[i] = x PROVE Occurs(x, t)
    BY <1>4, <2>1 DEF Occurs
  <2>2. ASSUME NEW i \in 1 .. Len(t), t[i] = x PROVE Occurs(x, s)
    BY <1>5, <1>8, <2>2 DEF Occurs
  <2>. QED
    BY <2>1, <2>2 DEF Occurs
<1>. QED
  BY <1>2, <1>3, <1>7, <1>8 DEF t

(* It unlinks the head it has read, which is still the head.               *)
LEMMA ListUnlink ==
    ASSUME ListInv, LockInv, TodoInv, NEW c \in Contexts, Unlink(c) PROVE ListInv'
<1>. DEFINE z == Zone(c)
            b == Head(free[z])
            rest == Tail(free[z])
<1>1. /\ pc \in [Contexts -> {"idle", "slab", "phys", "unlink"}]
      /\ seen \in [Contexts -> Seq(Blocks)] /\ out \in [Blocks -> Int]
      /\ mine \in Blocks \cup {0} /\ free \in [Zones -> Seq(Blocks)] /\ z \in Zones
      /\ ~IsFree(mine, free)
      /\ \A y \in Zones : Once(free[y])
      /\ \A x : ~(Occurs(x, free["numa"]) /\ Occurs(x, free["kernel"]))
      /\ \A x \in Blocks : out[x] = IF IsFree(x, free) THEN 0 ELSE 1
  BY DEF LockInv, ListInv, Zone, Zones
<1>2. /\ pc[c] = "unlink" /\ seen[c] # << >> /\ seen[c] = free[z] /\ free[z] \in Seq(Blocks)
  BY <1>1 DEF ListInv, Unlink, At
<1>3. /\ pc' = [pc EXCEPT ![c] = "idle"] /\ todo' = [todo EXCEPT ![c] = Tail(todo[c])]
      /\ free' = [free EXCEPT ![z] = rest] /\ seen' = [seen EXCEPT ![c] = << >>]
      /\ out' = [out EXCEPT ![b] = @ + 1]
      /\ mine' = b \/ mine' = mine
  BY <1>2 DEF Unlink, Over
<1>4. /\ b \in Blocks /\ rest \in Seq(Blocks) /\ Once(rest)
      /\ Occurs(b, free[z]) /\ ~Occurs(b, rest)
      /\ \A x : x # b => (Occurs(x, rest) <=> Occurs(x, free[z]))
  BY <1>1, <1>2, TailOnce
<1>. HIDE DEF z, b, rest
<1>5. << >> \in Seq(Blocks)
  BY EmptySeq
<1>6. /\ free' \in [Zones -> Seq(Blocks)] /\ seen' \in [Contexts -> Seq(Blocks)]
      /\ out' \in [Blocks -> Int] /\ mine' \in Blocks \cup {0}
      /\ free'[z] = rest /\ \A y \in Zones \ {z} : free'[y] = free[y]
  BY <1>1, <1>3, <1>4, <1>5
<1>7. \A d \in Contexts : pc'[d] = "unlink" => seen'[d] # << >> /\ seen'[d] = free'[Zone(d)']
  <2>1. ASSUME NEW d \in Contexts, pc'[d] = "unlink"
        PROVE  d # c /\ pc[d] = "unlink" /\ seen'[d] = seen[d]
    BY <1>1, <1>3, <2>1
  <2>2. ASSUME NEW d \in Contexts, pc'[d] = "unlink"
        PROVE  Zone(d)' = Zone(d) /\ Zone(d) \in Zones \ {z}
    BY <1>2, <1>3, <2>1, <2>2, OthersKept, OneInList, Zenon DEF TodoInv, Zone, Unlocked, Zones, z
  <2>. QED
    BY <1>6, <2>1, <2>2 DEF ListInv
<1>8. \A y \in Zones : Once(free'[y])
  BY <1>1, <1>4, <1>6, Zenon
<1>9. IsFree(b, free) /\ ~IsFree(b, free')
  BY <1>1, <1>4, <1>6 DEF IsFree, Zones
<1>10. ASSUME NEW x, x # b PROVE IsFree(x, free') <=> IsFree(x, free)
  BY <1>1, <1>4, <1>6, <1>10, Zenon DEF IsFree
<1>11. \A x : ~(Occurs(x, free'["numa"]) /\ Occurs(x, free'["kernel"]))
  BY <1>1, <1>4, <1>6 DEF Zones
<1>12. ~IsFree(mine', free')
  BY <1>1, <1>3, <1>9, <1>10, Zenon
<1>13. ASSUME NEW x \in Blocks PROVE out'[x] = IF IsFree(x, free') THEN 0 ELSE 1
  <2>1. CASE x = b
    BY <1>1, <1>3, <1>4, <1>9, <2>1
  <2>2. CASE x # b
    BY <1>1, <1>3, <1>10, <2>2, Zenon
  <2>. QED
    BY <2>1, <2>2
<1>. QED
  BY <1>6, <1>7, <1>8, <1>11, <1>12, <1>13 DEF ListInv

(* arch_memory_new gives its block back to the zone it has it from.        *)
LEMMA ListPut ==
    ASSUME ListInv, LockInv, TodoInv, PutBlock(Bsp), Bsp \in Contexts, mine # 0 PROVE ListInv'
<1>. DEFINE list == <<mine>> \o free["kernel"]
<1>1. /\ pc \in [Contexts -> {"idle", "slab", "phys", "unlink"}]
      /\ seen \in [Contexts -> Seq(Blocks)] /\ out \in [Blocks -> Int]
      /\ mine \in Blocks /\ free \in [Zones -> Seq(Blocks)] /\ "kernel" \in Zones
      /\ ~IsFree(mine, free) /\ 0 \notin Blocks
      /\ \A y \in Zones : Once(free[y])
      /\ \A x : ~(Occurs(x, free["numa"]) /\ Occurs(x, free["kernel"]))
      /\ \A x \in Blocks : out[x] = IF IsFree(x, free) THEN 0 ELSE 1
  <2>1. "kernel" \in Zones /\ 0 \notin Blocks
    BY DEF Zones, Blocks
  <2>2. pc \in [Contexts -> {"idle", "slab", "phys", "unlink"}]
    BY DEF LockInv
  <2>. QED
    BY <2>1, <2>2 DEF ListInv
<1>2. /\ pc[Bsp] = "idle" /\ pc' = [pc EXCEPT ![Bsp] = "idle"]
      /\ todo' = [todo EXCEPT ![Bsp] = Tail(todo[Bsp])]
      /\ free' = [free EXCEPT !["kernel"] = list] /\ seen' = seen
      /\ out' = [out EXCEPT ![mine] = @ - 1]
      /\ mine' = 0
  BY <1>1 DEF PutBlock, Over, At
<1>3. /\ list \in Seq(Blocks) /\ Once(list) /\ Occurs(mine, list)
      /\ \A x : x # mine => (Occurs(x, list) <=> Occurs(x, free["kernel"]))
  BY <1>1, ConsOnce DEF IsFree
<1>. HIDE DEF list
<1>4. /\ free' \in [Zones -> Seq(Blocks)] /\ out' \in [Blocks -> Int]
      /\ free'["kernel"] = list /\ \A y \in Zones \ {"kernel"} : free'[y] = free[y]
  BY <1>1, <1>2, <1>3
<1>5. \A d \in Contexts : pc'[d] = "unlink" => seen'[d] # << >> /\ seen'[d] = free'[Zone(d)']
  <2>1. ASSUME NEW d \in Contexts, pc'[d] = "unlink"
        PROVE  d # Bsp /\ pc[d] = "unlink" /\ Zone(d)' = Zone(d)
    BY <1>1, <1>2, <2>1, OthersKept, Zenon DEF TodoInv, Zone, Unlocked
  <2>2. ASSUME NEW d \in Contexts, pc'[d] = "unlink" PROVE Zone(d) = "numa"
    <3>1. todo[d] # << >> /\ todo[d] \in Seq(Ops) /\ d # Bsp
      BY <2>1, <2>2 DEF LockInv, TodoInv
    <3>2. Op(d) = todo[d][1] /\ 1 \in 1 .. Len(todo[d])
      BY <3>1, EmptySeq DEF Op
    <3>. QED
      BY <3>1, <3>2 DEF TodoInv, Plain, Zone, Unlocked
  <2>. QED
    BY <1>2, <1>4, <2>1, <2>2 DEF ListInv, Zones
<1>6. IsFree(mine, free')
  BY <1>1, <1>3, <1>4 DEF IsFree
<1>7. ASSUME NEW x, x # mine PROVE IsFree(x, free') <=> IsFree(x, free)
  BY <1>1, <1>3, <1>4, <1>7, Zenon DEF IsFree
<1>8. \A y \in Zones : Once(free'[y])
  BY <1>1, <1>3, <1>4, Zenon
<1>9. \A x : ~(Occurs(x, free'["numa"]) /\ Occurs(x, free'["kernel"]))
  BY <1>1, <1>3, <1>4 DEF Zones, IsFree
<1>10. ~IsFree(mine', free')
  <2>1. ASSUME NEW y \in Zones, NEW i \in 1 .. Len(free[y]) PROVE free[y][i] # 0
    BY <1>1, ElementOfSeq
  <2>2. ~IsFree(0, free)
    BY <2>1 DEF IsFree, Occurs
  <2>. QED
    BY <1>1, <1>2, <1>7, <2>2, Zenon
<1>11. ASSUME NEW x \in Blocks PROVE out'[x] = IF IsFree(x, free') THEN 0 ELSE 1
  <2>1. CASE x = mine
    BY <1>1, <1>2, <1>6, <2>1
  <2>2. CASE x # mine
    BY <1>1, <1>2, <1>7, <2>2, Zenon
  <2>. QED
    BY <2>1, <2>2
<1>. QED
  BY <1>1, <1>2, <1>4, <1>5, <1>8, <1>9, <1>10, <1>11, Zenon DEF ListInv

HeapInv == TodoInv /\ LockInv /\ ListInv

(* Failure lists: what is undone, and one operation more.                  *)
LEMMA OneMore ==
    ASSUME NEW s \in Seq(Ops), NEW e \in Ops, e \notin {TakeBlock, GiveBlock}, e.cache # "data"
    PROVE  /\ s \o <<e>> \in Seq(Ops)
           /\ Plain(s) => Plain(s \o <<e>>)
           /\ \A m : WithBlock(s, m) /\ e.op = "give" => WithBlock(s \o <<e>>, m)
<1>. DEFINE t == s \o <<e>>
<1>1. <<e>> \in Seq(Ops) /\ Len(<<e>>) = 1 /\ <<e>>[1] = e /\ Len(s) \in Nat
  BY LenProperties
<1>2. /\ t \in Seq(Ops) /\ Len(t) = Len(s) + 1
      /\ \A i \in 1 .. Len(s) + 1 : t[i] = IF i <= Len(s) THEN s[i] ELSE e
  BY <1>1, ConcatProperties
<1>. HIDE DEF t
<1>3. Plain(s) => Plain(t)
  BY <1>1, <1>2 DEF Plain
<1>4. ASSUME NEW m, WithBlock(s, m), e.op = "give" PROVE WithBlock(t, m)
  <2>1. ASSUME NEW i \in 1 .. Len(t), t[i] = GiveBlock
        PROVE  i = 1 /\ m # 0 /\ \A h \in 1 .. Len(t) : t[h].op = "give"
    BY <1>1, <1>2, <1>4, <2>1 DEF WithBlock
  <2>2. ASSUME NEW i \in 1 .. Len(t), t[i].op = "take", t[i].cache \in {"pgt", "data"}
        PROVE  m # 0 \/ \E j \in 1 .. i - 1 : t[j] = TakeBlock
    BY <1>1, <1>2, <1>4, <2>2 DEF WithBlock
  <2>. QED
    BY <2>1, <2>2 DEF WithBlock
<1>. QED
  BY <1>2, <1>3, <1>4 DEF t

(* What follows a failure is in order.                                     *)
LEMMA UndoInOrder ==
    ASSUME HeapInv, NEW c \in Contexts, NoBlock(c)
    PROVE  /\ Undo(c) \in Seq(Ops)
           /\ c = Bsp => WithBlock(Undo(c), mine)
           /\ c # Bsp => Plain(Undo(c))
<1>. DEFINE k == Op(c).cache
<1>1. /\ todo[c] \in Seq(Ops) /\ todo[c] # << >> /\ Len(todo[c]) \in Nat \ {0}
      /\ Op(c) = todo[c][1]
  <2>1. todo[c] # << >>
    BY DEF NoBlock, InList, At, Runs
  <2>2. todo[c] \in Seq(Ops)
    BY DEF HeapInv, TodoInv
  <2>. QED
    BY <2>1, <2>2, EmptySeq DEF Op
<1>2. Op(c).op = "take"
  <2>1. pc[c] = "phys" \/ Op(c) = TakeBlock
    BY DEF NoBlock, InList, At, Unlocked
  <2>2. pc[c] = "phys" => Op(c).op = "take"
    BY DEF HeapInv, LockInv
  <2>3. TakeBlock.op = "take"
    BY DEF TakeBlock
  <2>. QED
    BY <2>1, <2>2, <2>3
<1>3. CASE k = "data"
  <2>1. Undo(c) = <<GiveBlock, Give("pgt"), Give("vmem")>>
    BY <1>3 DEF Undo
  <2>2. c = Bsp
    BY <1>1, <1>3 DEF HeapInv, TodoInv, Plain
  <2>3. mine # 0
    BY <1>1, <1>2, <1>3, <2>2 DEF HeapInv, TodoInv, WithBlock
  <2>. QED
    BY <2>1, <2>2, <2>3, OpsTyped DEF WithBlock, GiveBlock, Give, Caches
<1>4. CASE k = "stack"
  <2>1. Undo(c) = <<Give("task")>>
    BY <1>4 DEF Undo
  <2>. QED
    BY <2>1, OpsTyped DEF WithBlock, Plain, Give, TakeBlock, GiveBlock, Caches
<1>5. CASE k = "pgt"
  <2>1. Undo(c) = <<Give("vmem")>>
    BY <1>5 DEF Undo
  <2>. QED
    BY <2>1, OpsTyped DEF WithBlock, Plain, Give, TakeBlock, GiveBlock, Caches
<1>6. CASE k \notin {"data", "stack", "pgt"}
  <2>1. Undo(c) = << >>
    BY <1>6 DEF Undo
  <2>. QED
    BY <2>1, EmptySeq DEF WithBlock, Plain
<1>. QED
  BY <1>3, <1>4, <1>5, <1>6

LEMMA FailureInOrder ==
    ASSUME HeapInv, NEW c \in Contexts, NoBlock(c)
    PROVE  /\ OnFailure(c) \in Seq(Ops)
           /\ c = Bsp => WithBlock(OnFailure(c), mine)
           /\ c # Bsp => Plain(OnFailure(c))
<1>0. Bsp \notin Aps
  BY SmpAssumption, Zenon
<1>1. /\ Give("proc") \in Ops /\ Give("proc") \notin {TakeBlock, GiveBlock}
      /\ Give("proc").cache # "data" /\ Give("proc").op = "give"
      /\ Ends("panic") \in Ops /\ Ends("panic") \notin {TakeBlock, GiveBlock}
      /\ Ends("panic").cache # "data"
  BY OpsTyped DEF Give, Ends, TakeBlock, GiveBlock, Caches
<1>2. CASE c \in Aps
  <2>1. OnFailure(c) = Undo(c) \o <<Ends("panic")>>
    BY <1>2 DEF OnFailure
  <2>. QED
    BY <1>0, <1>1, <1>2, <2>1, UndoInOrder, OneMore
<1>3. CASE c \notin Aps /\ Op(c).cache \in {"proc", "xregs", "event"}
  <2>1. OnFailure(c) = << >>
    BY <1>3 DEF OnFailure
  <2>. QED
    BY <2>1, EmptySeq DEF WithBlock, Plain
<1>4. CASE c \notin Aps /\ Op(c).cache \notin {"proc", "xregs", "event"}
  <2>1. OnFailure(c) = Undo(c) \o <<Give("proc")>>
    BY <1>4 DEF OnFailure
  <2>. QED
    BY <1>1, <2>1, UndoInOrder, OneMore
<1>. QED
  BY <1>2, <1>3, <1>4

(* A step of an allocation keeps the invariant.                            *)
LEMMA ContextStep ==
    ASSUME HeapInv, NEW c \in Contexts, ContextNext(c) PROVE HeapInv'
<1>. USE DEF HeapInv
<1>0. Runs(c) => todo[c] # << >>
  BY DEF Runs
<1>. DEFINE ListFrame ==
              \A d \in Contexts : pc'[d] = "unlink" => pc[d] = "unlink" /\ Zone(d)' = Zone(d)
<1>1. CASE LockSlab(c)
  <2>1. TodoInv'
    BY <1>1 DEF LockSlab, TodoInv
  <2>2. LockInv'
    BY <1>0, <1>1, Zenon DEF LockSlab, LockInv, Within, Unlocked, At, Op
  <2>3. ListFrame
    BY <1>1 DEF LockSlab, LockInv, Zone, Unlocked, Op
  <2>. QED
    BY <1>1, <2>1, <2>2, <2>3, ListKept DEF LockSlab
<1>2. CASE GiveObject(c) \/ TakeObject(c)
  <2>1. /\ pc[c] = "slab" /\ todo[c] # << >> /\ Op(c) \notin {TakeBlock, GiveBlock}
        /\ Over(c) /\ UNCHANGED <<phys, free, seen, out, mine>>
    <3>1. At(c, "slab") /\ Over(c) /\ UNCHANGED <<phys, free, seen, out, mine>>
      BY <1>2 DEF GiveObject, TakeObject
    <3>2. pc[c] = "slab" /\ todo[c] # << >>
      BY <1>0, <3>1 DEF At
    <3>3. Op(c).cache \in Caches
      BY <3>2 DEF LockInv
    <3>4. Op(c) \notin {TakeBlock, GiveBlock}
      BY <3>3 DEF Caches, TakeBlock, GiveBlock
    <3>. QED
      BY <3>1, <3>2, <3>4
  <2>2. TodoInv'
    BY <2>1, TodoOver
  <2>3. LockInv'
    BY <2>1, LockOver, Zenon DEF Over
  <2>4. ListFrame
    BY <2>1, OthersKept, Zenon DEF Over, LockInv, TodoInv, Zone, Unlocked
  <2>. QED
    BY <2>1, <2>2, <2>3, <2>4, ListKept
<1>4. CASE LockPhys(c)
  <2>1. TodoInv'
    BY <1>4 DEF LockPhys, TodoInv
  <2>2. LockInv'
    <3>1. WantsPhys(c) /\ phys = 0 /\ phys' = 1 /\ pc' = [pc EXCEPT ![c] = "phys"] /\ todo' = todo
      BY <1>4 DEF LockPhys
    <3>2. Runs(c) /\ Op(c).op = "take" /\ (pc[c] = "slab" \/ Op(c) = TakePage)
      BY <3>1 DEF WantsPhys, At, TakePage
    <3>3. pc[c] = "slab" => Op(c).cache \in Caches
      BY DEF LockInv
    <3>4. ~Unlocked(c)
      BY <3>2, <3>3 DEF Unlocked, Caches, TakeBlock, TakePage
    <3>5. \A d \in Contexts : Op(d)' = Op(d) /\ Unlocked(d)' = Unlocked(d)
      BY <3>1 DEF Op, Unlocked
    <3>6. \A d \in Contexts : ~Within(d)
      <4>1. \A d \in Contexts : Within(d) => phys = 1
        BY DEF LockInv
      <4>. QED
        BY <3>1, <4>1
    <3>7. \A d \in Contexts : d # c => pc'[d] = pc[d]
      BY <3>1, Zenon DEF LockInv
    <3>8. pc' \in [Contexts -> {"idle", "slab", "phys", "unlink"}] /\ pc'[c] = "phys"
      BY <3>1, Zenon DEF LockInv
    <3>9. \A d \in Contexts : d # c => ~Within(d)'
      BY <3>5, <3>6, <3>7, Zenon DEF Within
    <3>. QED
      BY <1>0, <3>1, <3>2, <3>4, <3>5, <3>7, <3>8, <3>9, Zenon DEF LockInv
  <2>3. ListFrame
    BY <1>4, Zenon DEF LockPhys, LockInv, Zone, Unlocked, Op
  <2>. QED
    BY <1>4, <2>1, <2>2, <2>3, ListKept DEF LockPhys
<1>5. CASE ReadHead(c)
  <2>1. TodoInv'
    BY <1>5, Zenon DEF ReadHead, TodoInv
  <2>2. LockInv'
    <3>1. InList(c) /\ pc' = [pc EXCEPT ![c] = "unlink"] /\ todo' = todo /\ phys' = phys
      BY <1>5, Zenon DEF ReadHead
    <3>2. Runs(c) /\ (pc[c] = "phys" \/ Unlocked(c))
      BY <3>1 DEF InList, At
    <3>3. pc[c] = "phys" => Op(c).op = "take" /\ ~Unlocked(c)
      BY DEF LockInv
    <3>4. Op(c).op = "take"
      BY <3>2, <3>3 DEF Unlocked, TakeBlock
    <3>5. \A d \in Contexts : Op(d)' = Op(d) /\ Unlocked(d)' = Unlocked(d)
      BY <3>1 DEF Op, Unlocked
    <3>6. \A d \in Contexts : d # c => pc'[d] = pc[d]
      BY <3>1, Zenon DEF LockInv
    <3>7. pc' \in [Contexts -> {"idle", "slab", "phys", "unlink"}] /\ pc'[c] = "unlink"
      BY <3>1, Zenon DEF LockInv
    <3>8. \A d \in Contexts : Within(d)' => Within(d)
      BY <3>2, <3>5, <3>6, Zenon DEF Within
    <3>. QED
      BY <1>0, <3>1, <3>2, <3>4, <3>5, <3>6, <3>7, <3>8, Zenon DEF LockInv
  <2>3. ListInv'
    BY <1>5, ListRead
  <2>. QED
    BY <2>1, <2>2, <2>3
<1>6. CASE Unlink(c)
  <2>1. /\ pc[c] = "unlink" /\ todo[c] # << >> /\ Over(c)
        /\ Unlocked(c) => mine' = Head(seen[c]) /\ phys' = phys
        /\ ~Unlocked(c) => mine' = mine
    BY <1>0, <1>6, Zenon DEF Unlink, Unlock, At
  <2>2. Head(seen[c]) # 0
    <3>1. seen[c] \in Seq(Blocks) /\ seen[c] # << >>
      BY <2>1, Zenon DEF ListInv
    <3>2. Head(seen[c]) \in Blocks
      BY <3>1, HeadTailProperties, Zenon
    <3>. QED
      BY <3>2 DEF Blocks
  <2>3. TodoInv'
    BY ZenonT(40), <2>1, <2>2, TodoOver DEF Unlocked
  <2>4. LockInv'
    BY <2>1, LockOver, Zenon DEF Over, Within
  <2>5. ListInv'
    BY <1>6, ListUnlink
  <2>. QED
    BY <2>3, <2>4, <2>5
<1>7. CASE NoBlock(c)
  <2>1. TodoInv'
    BY ZenonT(40), <1>7, FailureInOrder, TodoSet DEF NoBlock
  <2>2. Within(c) \/ phys' = phys
    BY <1>7, Zenon DEF NoBlock, Unlock, InList, At, Within, Unlocked, LockInv
  <2>3. LockInv'
    BY <1>7, <2>2, LockOver, Zenon DEF NoBlock
  <2>4. ListFrame
    BY <1>7, OthersKept, Zenon DEF NoBlock, LockInv, TodoInv, Zone, Unlocked
  <2>. QED
    BY <1>7, <2>1, <2>3, <2>4, ListKept, Zenon DEF NoBlock
<1>8. CASE PutBlock(c)
  <2>1. todo[c] # << >> /\ Op(c) = GiveBlock /\ Over(c) /\ phys' = phys
    BY <1>0, <1>8, Zenon DEF PutBlock, At
  <2>2. Op(c) = todo[c][1] /\ 1 \in 1 .. Len(todo[c])
    BY <2>1, EmptySeq DEF TodoInv, Op
  <2>3. c = Bsp /\ mine # 0
    BY <2>1, <2>2 DEF TodoInv, Plain, WithBlock
  <2>4. TodoInv'
    <3>1. GiveBlock # TakeBlock
      BY DEF TakeBlock, GiveBlock
    <3>. QED
      BY <2>1, <3>1, TodoOver
  <2>5. LockInv'
    BY <2>1, LockOver, Zenon DEF Over
  <2>6. ListInv'
    BY <1>8, <2>3, ListPut
  <2>. QED
    BY <2>4, <2>5, <2>6
<1>. QED
  BY <1>1, <1>2, <1>4, <1>5, <1>6, <1>7, <1>8 DEF ContextNext

(* A context that had nothing to do gets operations.                       *)
LEMMA CallsStep ==
    ASSUME HeapInv, NEW c \in Contexts, NEW s \in Seq(Ops), Calls(c, s), todo[c] = << >>,
           c = Bsp => WithBlock(s, mine), c # Bsp => Plain(s)
    PROVE  HeapInv'
<1>1. TodoInv'
  BY TodoSet, Zenon DEF HeapInv, Calls
<1>2. LockInv'
  BY LockKept, Zenon DEF HeapInv, LockInv, Calls
<1>3. \A d \in Contexts : pc'[d] = "unlink" => pc[d] = "unlink" /\ Zone(d)' = Zone(d)
  BY ZenonT(40), OthersKept DEF HeapInv, Calls, LockInv, TodoInv, Zone, Unlocked
<1>4. ListInv'
  BY <1>3, ListKept, Zenon DEF HeapInv, Calls
<1>. QED
  BY <1>1, <1>2, <1>4 DEF HeapInv

LEMMA HeapKept == ASSUME HeapInv, UNCHANGED heapVars PROVE HeapInv'
<1>1. TodoInv'
  BY DEF HeapInv, TodoInv, heapVars
<1>2. LockInv'
  BY DEF HeapInv, LockInv, Within, Unlocked, Op, heapVars
<1>3. ListInv'
  BY ListKept DEF HeapInv, Zone, Unlocked, Op, heapVars
<1>. QED
  BY <1>1, <1>2, <1>3 DEF HeapInv

(* A processor has nothing to allocate before _prepare_idle_task, and when *)
(* it is over.                                                             *)
ApTodo == \A a \in Aps : ap[a] # "alloc" => todo[a] = << >>

LEMMA ContextKeepsTodo ==
    ASSUME NEW c \in Contexts, ContextNext(c)
    PROVE  Runs(c) /\ (todo' = todo \/ \E s : todo' = [todo EXCEPT ![c] = s])
<1>. USE DEF At
<1>0. ASSUME Over(c) PROVE \E s : todo' = [todo EXCEPT ![c] = s]
  <2>. DEFINE s == Tail(todo[c])
  <2>1. todo' = [todo EXCEPT ![c] = s]
    BY <1>0 DEF Over
  <2>. HIDE DEF s
  <2>. QED
    BY <2>1, Zenon
<1>1. CASE LockSlab(c)   BY <1>1 DEF LockSlab
<1>2. CASE GiveObject(c) BY <1>0, <1>2 DEF GiveObject
<1>3. CASE TakeObject(c) BY <1>0, <1>3 DEF TakeObject
<1>4. CASE LockPhys(c)   BY <1>4, Zenon DEF LockPhys, WantsPhys
<1>5. CASE ReadHead(c)   BY <1>5 DEF ReadHead, InList
<1>6. CASE Unlink(c)     BY <1>0, <1>6 DEF Unlink
<1>7. CASE NoBlock(c)    BY <1>7, Zenon DEF NoBlock, InList
<1>8. CASE PutBlock(c)   BY <1>0, <1>8 DEF PutBlock
<1>. QED
  BY <1>1, <1>2, <1>3, <1>4, <1>5, <1>6, <1>7, <1>8 DEF ContextNext

LEMMA ApTodoStep == StackInv /\ HeapInv /\ ApTodo /\ [Next]_vars => ApTodo'
<1>. SUFFICES ASSUME StackInv, HeapInv, ApTodo, [Next]_vars PROVE ApTodo'
  OBVIOUS
<1>0. /\ Bsp \notin Aps /\ Tick \notin Aps /\ Aps \subseteq Contexts
      /\ DOMAIN ap = Aps /\ DOMAIN todo = Contexts
  <2>1. Bsp \notin Aps /\ Tick \notin Aps /\ Aps \subseteq Contexts
    BY SmpAssumption, Zenon DEF Contexts
  <2>2. DOMAIN ap = Aps /\ DOMAIN todo = Contexts
    BY DEF StackInv, HeapInv, TodoInv
  <2>. QED
    BY <2>1, <2>2
<1>1. CASE BootStep
  BY <1>1, SignalsAreOutside, Zenon DEF BootStep, ApTodo, heapVars
<1>2. CASE BootFails \/ BootWait \/ BootAwake \/ Restart
  BY <1>2, Zenon DEF BootFails, BootWait, BootAwake, Restart, ApTodo, heapVars, apVars
<1>3. CASE Fork \/ Nanosleep \/ Clock
  BY <1>0, <1>3, Zenon DEF Fork, Nanosleep, Clock, Calls, ApTodo, apVars
<1>4. ASSUME NEW a \in Aps, ApNext(a) PROVE ApTodo'
  <2>1. CASE ApAlloc(a)
    BY <1>0, <2>1 DEF ApAlloc, Goto, ApTodo
  <2>2. CASE ApEnds(a)
    BY <1>0, <2>2 DEF ApEnds, Goto, ApTodo
  <2>3. CASE \/ Trampoline(a) \/ TakeStack(a) \/ OwnStack(a) \/ NoStack(a)
             \/ ReleaseStack(a) \/ ApProbe(a)
    BY <1>0, <2>3, Zenon DEF Trampoline, TakeStack, OwnStack, NoStack, ReleaseStack, ApProbe,
                      Goto, ApTodo, heapVars
  <2>. QED
    BY <1>4, <2>1, <2>2, <2>3 DEF ApNext
<1>5. CASE UNCHANGED vars \/ Time \/ \E c \in Cpus : Poll(c)
  BY <1>5, Zenon DEF vars, Time, Poll, ApTodo, apVars, heapVars
<1>6. ASSUME NEW c \in Contexts, ContextNext(c) PROVE ApTodo'
  <2>1. todo[c] # << >> /\ ap' = ap
    BY <1>6, ContextKeepsTodo, ContextKeepsAps DEF Runs, apVars
  <2>2. \A a \in Aps \ {c} : todo'[a] = todo[a]
    BY <1>0, <1>6, ContextKeepsTodo
  <2>. QED
    BY <2>1, <2>2 DEF ApTodo
<1>. QED
  BY <1>1, <1>2, <1>3, <1>4, <1>5, <1>6 DEF Next, BspNext

LEMMA HeapStep == StackInv /\ HeapInv /\ ApTodo /\ [Next]_vars => HeapInv'
<1>. SUFFICES ASSUME StackInv, HeapInv, ApTodo, [Next]_vars PROVE HeapInv'
  OBVIOUS
<1>0. Bsp \in Contexts /\ Tick \in Contexts /\ Tick # Bsp /\ Aps \subseteq Contexts \ {Bsp}
  BY SmpAssumption DEF Contexts, Bsp
<1>1. CASE BootStep \/ BootFails \/ BootWait \/ BootAwake \/ Restart
  BY <1>1, HeapKept DEF BootStep, BootFails, BootWait, BootAwake, Restart
<1>2. CASE Fork
  <2>. DEFINE s == <<Take("proc"), Take("vmem"), TakeBlock, Take("pgt"), Take("data"),
                     TakePage, Take("task"), Take("stack"), Take("xregs")>>
  <2>1. s \in Seq(Ops)
    BY OpsTyped DEF Caches
  <2>2. WithBlock(s, mine)
    BY DEF WithBlock, Take, TakePage, TakeBlock, GiveBlock
  <2>. QED
    BY <1>0, <1>2, <2>1, <2>2, CallsStep, Zenon DEF Fork
<1>3. CASE Nanosleep
  <2>1. <<Take("event")>> \in Seq(Ops)
    BY OpsTyped DEF Caches
  <2>2. WithBlock(<<Take("event")>>, mine)
    BY DEF WithBlock, Take, GiveBlock
  <2>. QED
    BY <1>0, <1>3, <2>1, <2>2, CallsStep, Zenon DEF Nanosleep
<1>4. CASE Clock
  <2>1. PICK n \in 1 .. events : Calls(Tick, [i \in 1 .. n |-> Give("event")])
    BY <1>4, Zenon DEF Clock
  <2>. DEFINE s == [i \in 1 .. n |-> Give("event")]
  <2>2. s \in Seq(Ops) /\ Plain(s)
    <3>1. Give("event") \in Ops /\ Give("event") \notin {TakeBlock, GiveBlock}
          /\ Give("event").cache # "data"
      BY OpsTyped DEF Caches, Give, TakeBlock, GiveBlock
    <3>2. n \in Nat
      BY <2>1
    <3>. QED
      BY <3>1, <3>2, Z3 DEF Plain
  <2>. QED
    BY <1>0, <1>4, <2>1, <2>2, CallsStep DEF Clock, Interruptible
<1>5. ASSUME NEW a \in Aps, ApNext(a) PROVE HeapInv'
  <2>1. CASE ApAlloc(a)
    <3>. DEFINE s == <<Take("task"), Take("stack"), Ends("idle")>>
    <3>1. s \in Seq(Ops) /\ Plain(s)
      BY OpsTyped DEF Plain, Take, Ends, TakeBlock, GiveBlock, Caches
    <3>2. pc[a] = "idle"
      BY <1>0, <2>1 DEF HeapInv, LockInv, ApTodo, ApAlloc, Goto
    <3>3. TodoInv'
      BY <1>0, <2>1, <3>1, TodoSet, Zenon DEF HeapInv, ApAlloc
    <3>4. LockInv'
      BY <1>0, <2>1, <3>2, LockKept, Zenon DEF HeapInv, ApAlloc
    <3>5. ListInv'
      BY <1>0, <2>1, <3>2, OthersKept, ListKept, Zenon
         DEF HeapInv, ApAlloc, TodoInv, Zone, Unlocked
    <3>. QED
      BY <3>3, <3>4, <3>5 DEF HeapInv
  <2>2. CASE ApEnds(a)
    <3>1. pc[a] = "idle"
      <4>1. Op(a) \in Ops /\ Op(a).op \in {"idle", "panic"}
        BY <1>0, <2>2, HeadTailProperties DEF HeapInv, TodoInv, ApEnds, Op
      <4>2. Op(a).cache \notin Caches
        BY <4>1 DEF Ops, Ends, Caches
      <4>. QED
        BY <1>0, <4>1, <4>2, Zenon DEF HeapInv, LockInv
    <3>2. TodoInv'
      <4>1. << >> \in Seq(Ops) /\ Plain(<< >>)
        BY EmptySeq DEF Plain
      <4>. QED
        BY <1>0, <2>2, <4>1, TodoSet, Zenon DEF HeapInv, ApEnds
    <3>3. LockInv'
      BY <1>0, <2>2, <3>1, LockKept, Zenon DEF HeapInv, ApEnds
    <3>4. ListInv'
      BY <1>0, <2>2, <3>1, OthersKept, ListKept, Zenon
         DEF HeapInv, ApEnds, TodoInv, Zone, Unlocked
    <3>. QED
      BY <3>2, <3>3, <3>4 DEF HeapInv
  <2>3. CASE \/ Trampoline(a) \/ TakeStack(a) \/ OwnStack(a) \/ NoStack(a)
             \/ ReleaseStack(a) \/ ApProbe(a)
    BY <2>3, HeapKept DEF Trampoline, TakeStack, OwnStack, NoStack, ReleaseStack, ApProbe
  <2>. QED
    BY <1>5, <2>1, <2>2, <2>3 DEF ApNext
<1>6. CASE UNCHANGED vars \/ Time \/ \E c \in Cpus : Poll(c)
  BY <1>6, HeapKept DEF vars, Time, Poll
<1>. QED
  BY <1>1, <1>2, <1>3, <1>4, <1>5, <1>6, ContextStep DEF Next, BspNext

(* The free lists are sound on any number of processors: a block is handed *)
(* out once, by phys_mem_alloc, which takes the lock, and by the unlocked  *)
(* calls of arch_memory_new, which have a zone to themselves.              *)
THEOREM BlocksAreOnce == Spec => []BlocksOnce
<1>1. Init => StackInv /\ HeapInv /\ ApTodo
  <2>1. ASSUME Init PROVE ApTodo
    BY <2>1, SmpAssumption DEF Init, ApTodo, Contexts
  <2>. QED
    BY <2>1, StackStart, TodoStart, LockStart, ListStart DEF HeapInv
<1>2. StackInv /\ HeapInv /\ ApTodo /\ [Next]_vars => (StackInv /\ HeapInv /\ ApTodo)'
  BY StackStep, HeapStep, ApTodoStep
<1>3. HeapInv => BlocksOnce
  <2>. SUFFICES ASSUME HeapInv PROVE BlocksOnce
    OBVIOUS
  <2>1. \A z \in Zones : DOMAIN free[z] = 1 .. Len(free[z])
    BY LenProperties DEF HeapInv, ListInv
  <2>2. \A z \in Zones : \A i, j \in DOMAIN free[z] : free[z][i] = free[z][j] => i = j
    BY <2>1, Zenon DEF HeapInv, ListInv, Once
  <2>3. \A b \in Blocks :
            out[b] = IF \E z \in Zones : \E i \in DOMAIN free[z] : free[z][i] = b THEN 0 ELSE 1
    BY <2>1 DEF HeapInv, ListInv, IsFree, Occurs
  <2>. QED
    BY <2>2, <2>3 DEF BlocksOnce
<1>. QED
  BY <1>1, <1>2, <1>3, PTL DEF Spec
=============================================================================
