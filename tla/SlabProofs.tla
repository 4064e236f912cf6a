---------------------------- MODULE SlabProofs ----------------------------
(***************************************************************************)
(* Proofs about Slab, for any number of caches, slabs and objects of a     *)
(* slab: what an allocation and a free do to the lists of a cache, its     *)
(* marks and counts, the inductive invariant, and the three theorems.      *)
(***************************************************************************)
EXTENDS SlabLemmas

(* What a count says about the list of a slab.                             *)
Fit(n, k) ==
    /\ k = "full" => n = 0
    /\ k = "partial" => n \in 1 .. NObjs - 1
    /\ k = "empty" => n = NObjs

Kept(q, nu) == Apart(q) /\ \A k \in Kinds : \A x \in On(q, k) : Fit(nu[x], k)

Marks == [Slabs -> SUBSET Objs]
Counts == [Slabs -> Int]

LEMMA FirstMarkedIs ==
    ASSUME NEW free \in SUBSET Objs, free # {}
    PROVE  FirstMarked(free) \in free
<1>1. free \subseteq Nat
  BY SlabAssumption DEF Objs
<1>2. \E i \in free : \A j \in free : i <= j
  BY <1>1, Least, Zenon
<1> QED
  BY <1>2 DEF FirstMarked

(* The slab an allocation is from.                                         *)
Source(q) == IF q.head["partial"] # Nil THEN q.head["partial"] ELSE q.head["full"]

(* What AllocFrom takes from slab s, with the list operations left aside.  *)
Takes(r, s, mk, nu) ==
    \/ mk[s] = {} /\ r.marks = mk /\ r.nused = nu /\ r.obj = {}
    \/ \E i \in mk[s] :
          /\ r.marks = [mk EXCEPT ![s] = @ \ {i}]
          /\ r.nused = [nu EXCEPT ![s] = @ + 1]
          /\ r.obj = {<<s, i>>}

LEMMA AllocTakes ==
    ASSUME NEW q \in QueueType, q.head["partial"] # Nil \/ q.head["full"] # Nil,
           NEW mk \in Marks, NEW nu \in Counts
    PROVE  /\ Source(q) \in Slabs
           /\ AllocFrom(q, mk, nu).q =
                 Retire(TakeFull(q), Source(q), AllocFrom(q, mk, nu).nused[Source(q)])
           /\ Takes(AllocFrom(q, mk, nu), Source(q), mk, nu)
<1> DEFINE s == Source(q)
           r == AllocFrom(q, mk, nu)
           i == FirstMarked(mk[s])
<1>1. s \in Slabs /\ TakeFull(q) \in QueueType /\ TakeFull(q).head["partial"] = s
  BY FoundAfterTake DEF Source
<1> DEFINE p == TakeFull(q)
           o == Obtain(mk, nu, p.head["partial"])
<1>2. r = [q |-> Retire(p, p.head["partial"], o.nused[p.head["partial"]]),
           marks |-> o.marks, nused |-> o.nused, obj |-> o.obj]
  BY DEF AllocFrom
<1>3. o = Obtain(mk, nu, s)
  BY <1>1
<1> HIDE DEF p, s
<1>4. o = [marks |-> [mk EXCEPT ![s] = IF @ = {} THEN @ ELSE @ \ {FirstMarked(@)}],
           nused |-> [nu EXCEPT ![s] = IF mk[s] = {} THEN @ ELSE @ + 1],
           obj   |-> IF mk[s] = {} THEN {} ELSE {<<s, FirstMarked(mk[s])>>}]
  BY <1>3 DEF Obtain
<1> HIDE DEF o
<1>5. r.marks = o.marks /\ r.nused = o.nused /\ r.obj = o.obj
      /\ r.q = Retire(p, s, o.nused[s])
  BY <1>1, <1>2 DEF p
<1>6. mk[s] = {} => r.marks = mk /\ r.nused = nu /\ r.obj = {}
  BY <1>1, <1>4, <1>5 DEF Marks, Counts
<1>7. mk[s] # {} => i \in mk[s] /\ r.marks = [mk EXCEPT ![s] = @ \ {i}]
                    /\ r.nused = [nu EXCEPT ![s] = @ + 1] /\ r.obj = {<<s, i>>}
  BY <1>1, <1>4, <1>5, FirstMarkedIs, Zenon DEF Marks, Counts
<1> HIDE DEF r, i
<1>8. Takes(r, s, mk, nu)
  BY <1>6, <1>7, Zenon DEF Takes
<1>9. r.q = Retire(TakeFull(q), s, r.nused[s])
  BY <1>5 DEF p
<1> QED
  BY <1>1, <1>8, <1>9 DEF r, s

(* The lists after an allocation: in every case those slabs are found that *)
(* were found before, and the one the object is from; within the slabs of  *)
(* the cache nothing is lost or added.                                     *)
LEMMA AllocLists ==
    ASSUME NEW q \in QueueType, q.head["partial"] # Nil \/ q.head["full"] # Nil,
           NEW n
    PROVE  LET s == Source(q)
               r == Retire(TakeFull(q), s, n)
           IN  /\ r \in QueueType
               /\ \A x \in Slabs \ {s} : r.next[x] = q.next[x]
               /\ r.next[s] \in {q.next[s], q.head["empty"]}
               /\ \A y : Found(q, y) => Found(r, y)
               /\ Found(r, s)
               /\ \A O : Within(q, O) => Within(r, O)
<1> DEFINE s == Source(q)
           t == TakeFull(q)
           r == Retire(t, s, n)
           u == [t EXCEPT !.head["partial"] = t.next[s]]
<1>1. /\ t \in QueueType /\ t.next = q.next /\ t.head["partial"] = s /\ s \in Slabs
      /\ t.head["empty"] = q.head["empty"]
      /\ t.head["full"] = IF q.head["partial"] # Nil THEN q.head["full"] ELSE q.next[q.head["full"]]
      /\ \A y : Found(q, y) => Found(t, y)
  BY FoundAfterTake DEF Source
<1> HIDE DEF t
<1>2. /\ r \in QueueType
      /\ \A y : Found(t, y) => Found(r, y)
      /\ Found(r, s)
  BY <1>1, FoundAfterRetire
<1>3. r.next = t.next \/ r.next = [t.next EXCEPT ![s] = q.head["empty"]]
  <2>1. CASE n # NObjs
    BY <2>1 DEF Retire
  <2>2. CASE n = NObjs
    BY <1>1, <2>2 DEF Retire, Push, QueueType, Kinds
  <2> QED
    BY <2>1, <2>2
<1>4. /\ \A x \in Slabs \ {s} : r.next[x] = q.next[x]
      /\ r.next[s] \in {q.next[s], q.head["empty"]}
  <2> HIDE DEF r, s
  <2> QED
    BY <1>1, <1>3 DEF QueueType
<1>5. ASSUME NEW O, Within(q, O)
      PROVE  Within(r, O)
  <2>1. s \in O
    BY <1>5 DEF Within, Source, Kinds
  <2>2. Within(t, O)
    <3>0. s = IF q.head["partial"] # Nil THEN q.head["partial"] ELSE q.head["full"]
      BY DEF Source
    <3> HIDE DEF s
    <3>1. \A k \in Kinds : t.head[k] # Nil => t.head[k] \in O
      <4>1. t.head["partial"] \in O
        BY <1>1, <2>1
      <4>2. t.head["empty"] # Nil => t.head["empty"] \in O
        BY <1>1, <1>5 DEF Within, Kinds
      <4>3. t.head["full"] # Nil => t.head["full"] \in O
        BY <1>1, <1>5, <2>1, <3>0 DEF Within, Kinds
      <4> QED
        BY <4>1, <4>2, <4>3 DEF Kinds
    <3> QED
      BY <1>1, <1>5, <3>1 DEF Within
  <2>3. CASE n # NObjs
    BY <2>2, <2>3 DEF Retire
  <2>4. CASE n = NObjs
    <3>1. r = Push(u, "empty", s)
      BY <2>4 DEF Retire
    <3> HIDE DEF s
    <3>2. u \in QueueType /\ u.next = t.next /\ u.head = [t.head EXCEPT !["partial"] = t.next[s]]
      BY <1>1 DEF QueueType, Pointer
    <3>3. Within(u, O)
      <4> HIDE DEF u
      <4> QED
        BY <1>1, <2>1, <2>2, <3>2 DEF Within, QueueType
    <3>4. u \in QueueType /\ "empty" \in Kinds
      BY <3>2 DEF Kinds
    <3> HIDE DEF u
    <3> QED
      BY <1>1, <2>1, <3>1, <3>3, <3>4, PushWithin
  <2> QED
    BY <2>3, <2>4
<1> HIDE DEF r, s
<1>6. \A y : Found(q, y) => Found(r, y)
  BY <1>1, <1>2
<1> QED
  BY <1>2, <1>4, <1>5, <1>6 DEF r, s, t

(* As long as the lists are apart, an allocation moves the slab to the     *)
(* list its count says.                                                    *)
LEMMA AllocKept ==
    ASSUME NEW q \in QueueType, q.head["partial"] # Nil \/ q.head["full"] # Nil,
           NEW nu \in Counts, Kept(q, nu), ~ Joins(q)
    PROVE  LET s == Source(q)
               n == [nu EXCEPT ![s] = @ + 1]
           IN  Kept(Retire(TakeFull(q), s, n[s]), n) /\ nu[s] \in 0 .. NObjs - 1
<1> DEFINE s == Source(q)
           n == [nu EXCEPT ![s] = @ + 1]
           t == TakeFull(q)
           r == Retire(t, s, n[s])
<1>1. /\ t \in QueueType /\ t.next = q.next /\ t.head["partial"] = s /\ s \in Slabs
      /\ t.head["empty"] = q.head["empty"]
      /\ t.head["full"] = IF q.head["partial"] # Nil THEN q.head["full"] ELSE q.next[q.head["full"]]
  BY FoundAfterTake DEF Source
<1>0. q.next \in [Slabs -> Pointer] /\ s # Nil
  BY <1>1, ReachType DEF QueueType
<1>2. /\ Apart(t)
      /\ \A x \in On(t, "partial") \ {s} : Fit(nu[x], "partial")
      /\ \A x \in On(t, "full") : Fit(nu[x], "full")
      /\ \A x \in On(t, "empty") : Fit(nu[x], "empty")
      /\ nu[s] \in 0 .. NObjs - 1
  <2>1. CASE q.head["partial"] # Nil
    <3>1. t = q
      BY <2>1 DEF TakeFull
    <3>2. s \in On(q, "partial")
      BY <1>1, <3>1, ReachHead DEF On
    <3>3. Fit(nu[s], "partial")
      BY <3>2 DEF Kept, Kinds
    <3>4. nu[s] \in 0 .. NObjs - 1
      BY <3>3, SlabAssumption DEF Fit
    <3> HIDE DEF s
    <3> QED
      BY <3>1, <3>4 DEF Kept, Kinds
  <2>2. CASE q.head["partial"] = Nil
    <3>1. s = q.head["full"] /\ q.next[s] = Nil
      BY <2>2 DEF Source, Joins
    <3>2. t.head["full"] = Nil
      BY <1>1, <2>2, <3>1
    <3> HIDE DEF s, t
    <3>3. On(t, "full") = {}
      BY <1>0, <1>1, <3>2, ReachNil DEF On
    <3>4. Reach(q.next, s) = {s}
      BY <1>0, <1>1, <3>1, ReachNext, ReachNil
    <3>5. On(t, "partial") = {s} /\ On(q, "full") = {s}
      BY <1>1, <3>1, <3>4 DEF On
    <3>6. On(t, "empty") = On(q, "empty")
      BY <1>1 DEF On
    <3>7. \A k \in Kinds : Ends(t.next, t.head[k])
      <4>1. Ends(q.next, q.head["empty"])
        BY DEF Kept, Apart, Kinds
      <4>2. Ends(q.next, s)
        BY <3>1, <3>4 DEF Ends
      <4> QED
        BY <1>1, <3>2, <4>1, <4>2 DEF Ends, Kinds
    <3>8. s \notin On(q, "empty")
      BY <3>5 DEF Kept, Apart, Kinds
    <3>9. Apart(t)
      BY <3>3, <3>5, <3>6, <3>7, <3>8 DEF Apart, Kinds
    <3>10. Fit(nu[s], "full")
      BY <3>5 DEF Kept, Kinds
    <3>11. nu[s] \in 0 .. NObjs - 1
      BY <3>10, SlabAssumption DEF Fit
    <3> QED
      BY <3>3, <3>5, <3>6, <3>9, <3>11 DEF Kept, Kinds
  <2> QED
    BY <2>1, <2>2
<1>3. /\ n[s] = nu[s] + 1 /\ \A x \in Slabs \ {s} : n[x] = nu[x]
  BY <1>1 DEF Counts
<1>4. s \in On(t, "partial")
  BY <1>1, ReachHead DEF On
<1>5. /\ s \notin On(t, "full") /\ s \notin On(t, "empty")
      /\ On(t, "full") \subseteq Slabs /\ On(t, "empty") \subseteq Slabs /\ On(t, "partial") \subseteq Slabs
  BY <1>2, <1>4, ReachType DEF Apart, Kinds, On
<1> HIDE DEF n, s, t
<1>6. ASSUME n[s] # NObjs
      PROVE  Kept(r, n)
  <2>1. r = t
    BY <1>6 DEF Retire
  <2>2. Fit(n[s], "partial")
    BY <1>2, <1>3, <1>6, SlabAssumption DEF Fit
  <2>3. \A x \in On(t, "partial") : Fit(n[x], "partial")
    BY <1>2, <1>3, <1>5, <2>2
  <2>4. \A x \in On(t, "full") : Fit(n[x], "full")
    BY <1>2, <1>3, <1>5
  <2>5. \A x \in On(t, "empty") : Fit(n[x], "empty")
    BY <1>2, <1>3, <1>5
  <2>6. Kept(t, n)
    BY <1>2, <2>3, <2>4, <2>5 DEF Kept, Kinds
  <2> QED
    BY <2>1, <2>6
<1>7. ASSUME n[s] = NObjs
      PROVE  Kept(r, n)
  <2> DEFINE u == Unlink(t, "partial", s)
  <2>0. "partial" \in Kinds /\ "empty" \in Kinds /\ "full" \in Kinds
    BY DEF Kinds
  <2>1. u = [t EXCEPT !.head["partial"] = t.next[s]]
    BY <1>0, <1>1, <1>2, <2>0, HeadApart, Zenon
  <2>2. r = Push(u, "empty", s)
    BY <1>7, <2>1 DEF Retire
  <2>3. u \in QueueType
    BY <1>1, <1>4, <2>0, UnlinkType
  <2>4. /\ Apart(u)
        /\ On(u, "partial") = On(t, "partial") \ {s}
        /\ \A j \in Kinds \ {"partial"} : On(u, j) = On(t, j)
    BY <1>1, <1>2, <1>4, <2>0, UnlinkApart
  <2> HIDE DEF u, r
  <2>5. On(u, "empty") = On(t, "empty") /\ On(u, "full") = On(t, "full")
    BY <2>4 DEF Kinds
  <2>6. \A j \in Kinds : s \notin On(u, j)
    BY <1>5, <2>4, <2>5 DEF Kinds
  <2>7. /\ Apart(Push(u, "empty", s))
        /\ On(Push(u, "empty", s), "empty") = On(u, "empty") \cup {s}
        /\ \A j \in Kinds \ {"empty"} : On(Push(u, "empty", s), j) = On(u, j)
    BY <1>1, <2>0, <2>3, <2>4, <2>6, PushApart
  <2>8. /\ On(r, "empty") = On(t, "empty") \cup {s}
        /\ On(r, "partial") = On(t, "partial") \ {s}
        /\ On(r, "full") = On(t, "full")
    BY <2>2, <2>4, <2>5, <2>7 DEF Kinds
  <2>9. Fit(n[s], "empty")
    BY <1>7 DEF Fit
  <2>10. \A x \in On(r, "empty") : Fit(n[x], "empty")
    BY <1>2, <1>3, <1>5, <2>8, <2>9
  <2>11. \A x \in On(r, "partial") : Fit(n[x], "partial")
    BY <1>2, <1>3, <1>5, <2>8
  <2>12. \A x \in On(r, "full") : Fit(n[x], "full")
    BY <1>2, <1>3, <1>5, <2>8
  <2> QED
    BY <2>2, <2>7, <2>10, <2>11, <2>12 DEF Kept, Kinds
<1>8. Kept(r, n)
  BY <1>6, <1>7
<1> HIDE DEF r
<1>9. Kept(r, n) /\ nu[s] \in 0 .. NObjs - 1
  BY <1>2, <1>8
<1> QED
  BY <1>9 DEF r, n, s, t

(* The two moves of memory_slab_free.                                      *)
LEMMA MoveLists ==
    ASSUME NEW q \in QueueType, NEW j \in Kinds, NEW k \in Kinds, j # k, NEW s \in On(q, j)
    PROVE  LET r == Push(Unlink(q, j, s), k, s)
           IN  /\ r \in QueueType
               /\ s \in On(r, k)
               /\ \A O : Within(q, O) =>
                     Within(r, O) /\ \A x \in Slabs \ O : r.next[x] = q.next[x]
               /\ Apart(q) =>
                     /\ Apart(r)
                     /\ On(r, j) = On(q, j) \ {s} /\ On(r, k) = On(q, k) \cup {s}
                     /\ \A i \in Kinds \ {j, k} : On(r, i) = On(q, i)
<1> DEFINE u == Unlink(q, j, s)
           r == Push(u, k, s)
<1>0. s \in Slabs /\ u \in QueueType
  BY ReachType, UnlinkType DEF On
<1>1. /\ \A x \in Slabs \ On(q, j) : u.next[x] = q.next[x]
  BY UnlinkType
<1>2. ASSUME NEW O, Within(q, O)
      PROVE  Within(u, O) /\ s \in O /\ On(q, j) \subseteq O
  BY <1>2, UnlinkWithin, OnWithin
<1>3. ASSUME Apart(q)
      PROVE  /\ Apart(u) /\ On(u, j) = On(q, j) \ {s}
             /\ \A i \in Kinds \ {j} : On(u, i) = On(q, i)
  BY <1>3, UnlinkApart
<1>4. ASSUME Apart(q)
      PROVE  \A i \in Kinds : s \notin On(u, i)
  <2>1. \A i \in Kinds \ {j} : s \notin On(q, i)
    BY <1>4 DEF Apart
  <2> HIDE DEF u
  <2> QED
    BY <1>3, <1>4, <2>1
<1> HIDE DEF u
<1>5. /\ r \in QueueType /\ r.next = [u.next EXCEPT ![s] = u.head[k]]
      /\ r.head = [u.head EXCEPT ![k] = s]
  BY <1>0, PushIs
<1>6. ASSUME NEW O, Within(q, O)
      PROVE  Within(r, O) /\ \A x \in Slabs \ O : r.next[x] = q.next[x]
  <2>1. Within(r, O)
    BY <1>0, <1>2, <1>6, PushWithin
  <2> HIDE DEF r
  <2>2. \A x \in Slabs \ O : r.next[x] = q.next[x]
    BY <1>0, <1>1, <1>2, <1>5, <1>6 DEF QueueType
  <2> QED
    BY <2>1, <2>2
<1>7. ASSUME Apart(q)
      PROVE  /\ Apart(r)
             /\ On(r, j) = On(q, j) \ {s} /\ On(r, k) = On(q, k) \cup {s}
             /\ \A i \in Kinds \ {j, k} : On(r, i) = On(q, i)
  <2>1. Apart(u) /\ \A i \in Kinds : s \notin On(u, i)
    BY <1>3, <1>4, <1>7
  <2>2. /\ Apart(r) /\ On(r, k) = On(u, k) \cup {s}
        /\ \A i \in Kinds \ {k} : On(r, i) = On(u, i)
    BY <1>0, <2>1, PushApart
  <2> HIDE DEF r
  <2> QED
    BY <1>3, <1>7, <2>2
<1>8. s \in On(r, k)
  <2>1. r.head[k] = s
    <3> HIDE DEF r
    <3> QED
      BY <1>0, <1>5 DEF QueueType
  <2> QED
    BY <1>0, <2>1, ReachHead DEF On
<1> HIDE DEF r
<1>9. r \in QueueType
  BY <1>5
<1> QED
  BY <1>6, <1>7, <1>8, <1>9 DEF r, u

LEMMA RefillLists ==
    ASSUME NEW q \in QueueType, NEW s \in On(q, "partial")
    PROVE  /\ Refill(q, s) \in QueueType
           /\ \A y : Found(q, y) /\ (nused[s] = 1 => y # s) => Found(Refill(q, s), y)
           /\ \A O : Within(q, O) =>
                 Within(Refill(q, s), O) /\ \A x \in Slabs \ O : Refill(q, s).next[x] = q.next[x]
           /\ Apart(q) =>
                 /\ Apart(Refill(q, s))
                 /\ nused[s] # 1 => \A k \in Kinds : On(Refill(q, s), k) = On(q, k)
                 /\ nused[s] = 1 =>
                       /\ On(Refill(q, s), "partial") = On(q, "partial") \ {s}
                       /\ On(Refill(q, s), "full") = On(q, "full") \cup {s}
                       /\ On(Refill(q, s), "empty") = On(q, "empty")
<1> DEFINE r == Push(Unlink(q, "partial", s), "full", s)
<1>0. "partial" \in Kinds /\ "full" \in Kinds /\ "empty" \in Kinds \ {"partial", "full"}
  BY DEF Kinds
<1>1. CASE nused[s] # 1
  <2>1. Refill(q, s) = q
    BY <1>1 DEF Refill
  <2> QED
    BY <1>1, <2>1
<1>2. CASE nused[s] = 1
  <2>1. Refill(q, s) = r
    BY <1>2 DEF Refill
  <2>2. /\ r \in QueueType
        /\ \A O : Within(q, O) => Within(r, O) /\ \A x \in Slabs \ O : r.next[x] = q.next[x]
        /\ Apart(q) =>
              /\ Apart(r)
              /\ On(r, "partial") = On(q, "partial") \ {s} /\ On(r, "full") = On(q, "full") \cup {s}
              /\ \A i \in Kinds \ {"partial", "full"} : On(r, i) = On(q, i)
    BY <1>0, MoveLists
  <2>3. \A y : Found(q, y) /\ y # s => Found(r, y)
    BY FoundAfterRefill
  <2> HIDE DEF r
  <2> QED
    BY <1>0, <1>2, <2>1, <2>2, <2>3
<1> QED
  BY <1>1, <1>2

LEMMA FreePartialKept ==
    ASSUME NEW q \in QueueType, NEW s \in On(q, "partial"), nused \in Counts, Kept(q, nused)
    PROVE  Kept(Refill(q, s), [nused EXCEPT ![s] = @ - 1])
<1> DEFINE r == Refill(q, s)
           n == [nused EXCEPT ![s] = @ - 1]
<1>1. /\ Apart(r)
      /\ nused[s] # 1 => \A k \in Kinds : On(r, k) = On(q, k)
      /\ nused[s] = 1 =>
            /\ On(r, "partial") = On(q, "partial") \ {s}
            /\ On(r, "full") = On(q, "full") \cup {s}
            /\ On(r, "empty") = On(q, "empty")
  BY RefillLists DEF Kept
<1>2. s \in Slabs /\ \A k \in Kinds : On(q, k) \subseteq Slabs
  BY ReachType DEF On, Kinds
<1>3. n[s] = nused[s] - 1 /\ \A x \in Slabs \ {s} : n[x] = nused[x]
  BY <1>2 DEF Counts
<1>4. s \notin On(q, "full") /\ s \notin On(q, "empty") /\ Fit(nused[s], "partial")
  BY DEF Kept, Apart, Kinds
<1>5. /\ \A x \in On(q, "partial") : Fit(nused[x], "partial")
      /\ \A x \in On(q, "full") : Fit(nused[x], "full")
      /\ \A x \in On(q, "empty") : Fit(nused[x], "empty")
  BY DEF Kept, Kinds
<1>6. nused[s] \in 1 .. NObjs - 1 /\ "partial" \in Kinds /\ "full" \in Kinds /\ "empty" \in Kinds
  BY <1>4 DEF Fit, Kinds
<1> HIDE DEF r, n
<1>7. CASE nused[s] = 1
  <2>1. Fit(n[s], "full")
    BY <1>3, <1>7 DEF Fit
  <2>2. \A x \in On(r, "full") : Fit(n[x], "full")
    BY <1>1, <1>2, <1>3, <1>5, <1>6, <1>7, <2>1
  <2>3. \A x \in On(r, "partial") : Fit(n[x], "partial")
    BY <1>1, <1>2, <1>3, <1>5, <1>6, <1>7
  <2>4. \A x \in On(r, "empty") : Fit(n[x], "empty")
    BY <1>1, <1>2, <1>3, <1>4, <1>5, <1>6, <1>7
  <2>5. Kept(r, n)
    BY <1>1, <2>2, <2>3, <2>4 DEF Kept, Kinds
  <2> QED
    BY <2>5 DEF r, n
<1>8. CASE nused[s] # 1
  <2>1. Fit(n[s], "partial")
    BY <1>3, <1>6, <1>8, SlabAssumption DEF Fit
  <2>2. \A x \in On(r, "full") : Fit(n[x], "full")
    BY <1>1, <1>2, <1>3, <1>4, <1>5, <1>6, <1>8
  <2>3. \A x \in On(r, "partial") : Fit(n[x], "partial")
    BY <1>1, <1>2, <1>3, <1>5, <1>6, <1>8, <2>1
  <2>4. \A x \in On(r, "empty") : Fit(n[x], "empty")
    BY <1>1, <1>2, <1>3, <1>4, <1>5, <1>6, <1>8
  <2>5. Kept(r, n)
    BY <1>1, <2>2, <2>3, <2>4 DEF Kept, Kinds
  <2> QED
    BY <2>5 DEF r, n
<1> QED
  BY <1>7, <1>8

LEMMA FreeEmptyKept ==
    ASSUME NEW q \in QueueType, NEW s \in On(q, "empty"), nused \in Counts, Kept(q, nused)
    PROVE  Kept(Refill(Push(Unlink(q, "empty", s), "partial", s), s), [nused EXCEPT ![s] = @ - 1])
<1> DEFINE m == Push(Unlink(q, "empty", s), "partial", s)
           r == Refill(m, s)
           n == [nused EXCEPT ![s] = @ - 1]
<1>0. "partial" \in Kinds /\ "full" \in Kinds \ {"empty", "partial"} /\ "empty" \in Kinds
  BY DEF Kinds
<1>1. /\ m \in QueueType /\ s \in On(m, "partial")
      /\ Apart(m)
      /\ On(m, "empty") = On(q, "empty") \ {s} /\ On(m, "partial") = On(q, "partial") \cup {s}
      /\ On(m, "full") = On(q, "full")
  BY <1>0, MoveLists DEF Kept
<1> HIDE DEF m
<1>2. /\ Apart(r)
      /\ nused[s] # 1 => \A k \in Kinds : On(r, k) = On(m, k)
      /\ nused[s] = 1 =>
            /\ On(r, "partial") = On(m, "partial") \ {s}
            /\ On(r, "full") = On(m, "full") \cup {s}
            /\ On(r, "empty") = On(m, "empty")
  BY <1>1, RefillLists
<1>3. s \in Slabs /\ \A k \in Kinds : On(q, k) \subseteq Slabs
  BY ReachType DEF On, Kinds
<1>4. n[s] = nused[s] - 1 /\ \A x \in Slabs \ {s} : n[x] = nused[x]
  BY <1>3 DEF Counts
<1>5. s \notin On(q, "full") /\ s \notin On(q, "partial") /\ Fit(nused[s], "empty")
  BY DEF Kept, Apart, Kinds
<1>6. /\ \A x \in On(q, "partial") : Fit(nused[x], "partial")
      /\ \A x \in On(q, "full") : Fit(nused[x], "full")
      /\ \A x \in On(q, "empty") : Fit(nused[x], "empty")
  BY DEF Kept, Kinds
<1>7. nused[s] = NObjs
  BY <1>5 DEF Fit
<1> HIDE DEF r, n
<1>8. \A x \in On(r, "empty") : Fit(n[x], "empty")
  BY <1>0, <1>1, <1>2, <1>3, <1>4, <1>6
<1>9. CASE nused[s] = 1
  <2>1. Fit(n[s], "full")
    BY <1>4, <1>9 DEF Fit
  <2>2. \A x \in On(r, "full") : Fit(n[x], "full")
    BY <1>0, <1>1, <1>2, <1>3, <1>4, <1>6, <1>9, <2>1
  <2>3. \A x \in On(r, "partial") : Fit(n[x], "partial")
    BY <1>0, <1>1, <1>2, <1>3, <1>4, <1>6, <1>9
  <2>4. Kept(r, n)
    BY <1>2, <1>8, <2>2, <2>3 DEF Kept, Kinds
  <2> QED
    BY <2>4 DEF r, n, m
<1>10. CASE nused[s] # 1
  <2>1. Fit(n[s], "partial")
    BY <1>4, <1>7, <1>10, SlabAssumption DEF Fit
  <2>2. \A x \in On(r, "full") : Fit(n[x], "full")
    BY <1>0, <1>1, <1>2, <1>3, <1>4, <1>5, <1>6, <1>10
  <2>3. \A x \in On(r, "partial") : Fit(n[x], "partial")
    BY <1>0, <1>1, <1>2, <1>3, <1>4, <1>5, <1>6, <1>10, <2>1
  <2>4. Kept(r, n)
    BY <1>2, <1>8, <2>2, <2>3 DEF Kept, Kinds
  <2> QED
    BY <2>4 DEF r, n, m
<1> QED
  BY <1>9, <1>10

(* A change of pointers outside the slabs of a cache.                      *)
LEMMA OtherCache ==
    ASSUME NEW f \in [Slabs -> Pointer], NEW g \in [Slabs -> Pointer],
           NEW h \in [Kinds -> Pointer], NEW O,
           Within([next |-> f, head |-> h], O), \A x \in O \cap Slabs : g[x] = f[x]
    PROVE  LET q == [next |-> f, head |-> h]
               r == [next |-> g, head |-> h]
           IN  /\ Within(r, O)
               /\ \A k \in Kinds : On(r, k) = On(q, k)
               /\ Apart(q) => Apart(r)
<1> DEFINE q == [next |-> f, head |-> h]
           r == [next |-> g, head |-> h]
<1>0. q \in QueueType /\ q.next = f /\ q.head = h /\ r.next = g /\ r.head = h
  BY DEF QueueType
<1>1. \A k \in Kinds : On(q, k) \subseteq O /\ On(q, k) \subseteq Slabs
  BY <1>0, OnWithin, ReachType DEF On
<1> HIDE DEF q, r
<1>2. ASSUME NEW k \in Kinds
      PROVE  On(r, k) = On(q, k) /\ (Ends(f, h[k]) => Ends(g, h[k]))
  <2>1. \A x \in Reach(f, h[k]) : g[x] = f[x]
    BY <1>0, <1>1 DEF On
  <2>2. h[k] \in Pointer
    OBVIOUS
  <2>3. Reach(g, h[k]) = Reach(f, h[k])
    BY <2>1, <2>2, ReachFrame
  <2>4. Ends(f, h[k]) => Ends(g, h[k])
    BY <2>1, <2>3 DEF Ends
  <2> QED
    BY <1>0, <2>3, <2>4 DEF On
<1>3. Within(r, O)
  BY <1>0 DEF Within, q
<1>4. Apart(q) => Apart(r)
  BY <1>0, <1>2 DEF Apart
<1>5. /\ Within(r, O)
      /\ \A k \in Kinds : On(r, k) = On(q, k)
      /\ Apart(q) => Apart(r)
  BY <1>2, <1>3, <1>4
<1> QED
  BY <1>5 DEF q, r

-----------------------------------------------------------------------------
(* The inductive invariant, of the pointers nx and hd, the marks mk, the   *)
(* counts nu, the owners ow, the objects he in use and joined (jo): an     *)
(* operation is a few elementary steps, each of which keeps it.            *)

Owned(ow, c) == {s \in Slabs : ow[s] = c}
CacheLists(nx, hd, c) == [next |-> nx, head |-> hd[c]]

TypeInv(nx, hd, mk, nu, ow, he) ==
    /\ nx \in [Slabs -> Pointer] /\ hd \in [Caches -> [Kinds -> Pointer]]
    /\ mk \in Marks /\ nu \in Counts
    /\ ow \in [Slabs -> Caches \cup {Nil}] /\ he \subseteq Slabs \X Objs

(* Each cache has its own slabs; one that is not in use has no objects.    *)
OwnInv(nx, hd, nu, ow, he) ==
    /\ \A c \in Caches : Within(CacheLists(nx, hd, c), Owned(ow, c))
    /\ \A s \in Slabs : ow[s] = Nil => nx[s] = Nil /\ nu[s] = 0
    /\ \A o \in he : ow[o[1]] # Nil

MarkInv(mk, nu, ow, he) ==
    \A s \in Slabs :
        /\ \A i \in Objs : <<s, i>> \in he => i \notin mk[s]
        /\ ow[s] # Nil => nu[s] = NObjs - Cardinality(mk[s])

(* A slab with objects in use is found, also after lists have joined.      *)
FindInv(nx, hd, nu, ow) ==
    \A s \in Slabs : ow[s] # Nil /\ nu[s] # 0 => Found(CacheLists(nx, hd, ow[s]), s)

(* The cache of caches has at most one slab to give from, and it gives.    *)
MetaInv(nx, hd, mk) ==
    /\ hd[Meta]["partial"] # Nil =>
          /\ hd[Meta]["full"] = Nil
          /\ nx[hd[Meta]["partial"]] = Nil /\ mk[hd[Meta]["partial"]] # {}
    /\ hd[Meta]["full"] # Nil =>
          nx[hd[Meta]["full"]] = Nil /\ mk[hd[Meta]["full"]] # {}

KeptInv(nx, hd, nu, jo) == jo \/ \A c \in Caches : Kept(CacheLists(nx, hd, c), nu)

Inv(nx, hd, mk, nu, ow, he, jo) ==
    /\ TypeInv(nx, hd, mk, nu, ow, he)
    /\ OwnInv(nx, hd, nu, ow, he)
    /\ MarkInv(mk, nu, ow, he)
    /\ FindInv(nx, hd, nu, ow)
    /\ MetaInv(nx, hd, mk)
    /\ KeptInv(nx, hd, nu, jo)

LEMMA CacheListsType ==
    ASSUME NEW nx \in [Slabs -> Pointer], NEW hd \in [Caches -> [Kinds -> Pointer]],
           NEW c \in Caches
    PROVE  /\ CacheLists(nx, hd, c) \in QueueType
           /\ CacheLists(nx, hd, c).next = nx /\ CacheLists(nx, hd, c).head = hd[c]
BY DEF CacheLists, QueueType

LEMMA ObjsFinite ==
    /\ IsFiniteSet(Objs) /\ Cardinality(Objs) = NObjs
    /\ \A S \in SUBSET Objs : IsFiniteSet(S) /\ Cardinality(S) \in Nat
<1>1. /\ IsFiniteSet(0 .. NObjs - 1)
      /\ Cardinality(0 .. NObjs - 1) = IF 0 > NObjs - 1 THEN 0 ELSE (NObjs - 1) - 0 + 1
  BY FS_Interval, SlabAssumption
<1>2. IsFiniteSet(Objs) /\ Cardinality(Objs) = NObjs
  BY <1>1, SlabAssumption DEF Objs
<1>3. \A S \in SUBSET Objs : IsFiniteSet(S)
  BY <1>2, FS_Subset
<1> QED
  BY <1>2, <1>3, FS_CardinalityType

LEMMA SomeUsed ==
    ASSUME NEW S \in SUBSET Objs, S # Objs
    PROVE  NObjs - Cardinality(S) # 0
<1>1. IsFiniteSet(S) /\ Cardinality(S) \in Nat /\ NObjs \in Nat
  BY ObjsFinite, SlabAssumption
<1>2. Cardinality(S) # Cardinality(Objs)
  BY ObjsFinite, FS_Subset
<1>3. Cardinality(Objs) = NObjs
  BY ObjsFinite
<1> QED
  BY <1>1, <1>2, <1>3

(* An operation on cache c changes its own slabs only, and new ones.       *)
Changes(c, nx, nu, ow, nx2, nu2, ow2) ==
    /\ nu2 \in Counts /\ ow2 \in [Slabs -> Caches \cup {Nil}]
    /\ \A x \in Slabs : ow[x] # Nil => ow2[x] = ow[x]
    /\ \A x \in Slabs : ow2[x] # c => ow2[x] = ow[x] /\ nu2[x] = nu[x] /\ nx2[x] = nx[x]

(* What the invariant says of the lists of cache d.                        *)
ListsKeep(d, nx, hd, nu, ow, jo) ==
    /\ Within(CacheLists(nx, hd, d), Owned(ow, d))
    /\ \A s \in Slabs : ow[s] = d /\ nu[s] # 0 => Found(CacheLists(nx, hd, d), s)
    /\ ~ jo => Kept(CacheLists(nx, hd, d), nu)

LEMMA OthersKeep ==
    ASSUME NEW nx, NEW hd, NEW mk, NEW nu, NEW ow, NEW he, NEW jo,
           Inv(nx, hd, mk, nu, ow, he, jo),
           NEW c \in Caches, NEW q \in QueueType, NEW nu2, NEW ow2,
           Changes(c, nx, nu, ow, q.next, nu2, ow2),
           NEW d \in Caches \ {c}
    PROVE  ListsKeep(d, q.next, [hd EXCEPT ![c] = q.head], nu2, ow2, jo)
<1> DEFINE h == [hd EXCEPT ![c] = q.head]
           O == Owned(ow, d)
           p == [next |-> nx, head |-> hd[d]]
           r == [next |-> q.next, head |-> hd[d]]
<1>0. /\ nx \in [Slabs -> Pointer] /\ hd \in [Caches -> [Kinds -> Pointer]]
      /\ ow \in [Slabs -> Caches \cup {Nil}] /\ nu \in Counts
  BY DEF Inv, TypeInv
<1>1. Owned(ow2, d) = O /\ d # Nil
  <2>1. d # Nil
    BY SlabAssumption
  <2> QED
    BY <2>1 DEF Owned, Changes
<1>2. CacheLists(q.next, h, d) = r /\ CacheLists(nx, hd, d) = p
  BY <1>0 DEF CacheLists
<1>3. Within(p, O)
  <2>1. Within(CacheLists(nx, hd, d), Owned(ow, d))
    BY Zenon DEF Inv, OwnInv
  <2> QED
    BY <1>2, <2>1
<1>4. \A x \in O \cap Slabs : q.next[x] = nx[x] /\ nu2[x] = nu[x] /\ ow2[x] = d
  BY <1>1, Zenon DEF Owned, Changes
<1>5. q.next \in [Slabs -> Pointer] /\ hd[d] \in [Kinds -> Pointer]
  BY <1>0 DEF QueueType
<1> HIDE DEF O
<1>6. /\ Within(r, O) /\ \A k \in Kinds : On(r, k) = On(p, k)
      /\ Apart(p) => Apart(r)
  <2> DEFINE g == q.next
             e == hd[d]
  <2>1. /\ g \in [Slabs -> Pointer] /\ e \in [Kinds -> Pointer]
        /\ Within([next |-> nx, head |-> e], O) /\ \A x \in O \cap Slabs : g[x] = nx[x]
    BY <1>3, <1>4, <1>5, Zenon
  <2> HIDE DEF g, e
  <2>2. /\ Within([next |-> g, head |-> e], O)
        /\ \A k \in Kinds : On([next |-> g, head |-> e], k) = On([next |-> nx, head |-> e], k)
        /\ Apart([next |-> nx, head |-> e]) => Apart([next |-> g, head |-> e])
    BY <1>0, <2>1, OtherCache, Zenon
  <2> QED
    BY <2>2, Zenon DEF g, e
<1>7. p \in QueueType
  BY <1>0, <1>5 DEF QueueType
<1>8. \A k \in Kinds : On(p, k) \subseteq O \cap Slabs
  <2> HIDE DEF p
  <2>1. \A k \in Kinds : On(p, k) \subseteq Slabs
    BY ReachType DEF On
  <2> QED
    BY <1>3, <1>7, <2>1, OnWithin
<1> HIDE DEF p, r
<1>9. ASSUME NEW s \in Slabs, ow2[s] = d, nu2[s] # 0
      PROVE  Found(r, s)
  <2>1. s \in O
    BY <1>1, <1>9 DEF Owned
  <2>2. ow[s] = d /\ ow[s] # Nil /\ nu[s] # 0
    BY <1>1, <1>4, <1>9, <2>1, Zenon DEF Owned, O
  <2>3. Found(p, s)
    BY <1>2, <2>2, Zenon DEF Inv, FindInv
  <2> QED
    BY <1>6, <2>3 DEF Found, Kinds
<1>10. ASSUME ~ jo
       PROVE  Kept(r, nu2)
  <2>1. Kept(p, nu)
    BY <1>2, <1>10 DEF Inv, KeptInv
  <2>2. Apart(r)
    BY <1>6, <2>1 DEF Kept
  <2>3. ASSUME NEW k \in Kinds, NEW x \in On(r, k)
        PROVE  Fit(nu2[x], k)
    <3>1. x \in On(p, k) /\ Fit(nu[x], k)
      BY <1>6, <2>1 DEF Kept
    <3> QED
      BY <1>4, <1>8, <3>1, Zenon
  <2> QED
    BY <2>2, <2>3 DEF Kept
<1> HIDE DEF h
<1>11. ListsKeep(d, q.next, h, nu2, ow2, jo)
  BY <1>1, <1>2, <1>6, <1>9, <1>10, Zenon DEF ListsKeep
<1> QED
  BY <1>11 DEF h

(* A cache gets a new slab, all of whose objects are free.                 *)
LEMMA GrowKeeps ==
    ASSUME NEW nx, NEW hd, NEW mk, NEW nu, NEW ow, NEW he, NEW jo,
           Inv(nx, hd, mk, nu, ow, he, jo),
           NEW c \in Caches, NEW s \in Slabs, ow[s] = Nil,
           hd[c]["full"] = Nil, c = Meta => hd[c]["partial"] = Nil
    PROVE  Inv(nx, [hd EXCEPT ![c] = [hd[c] EXCEPT !["full"] = s]], [mk EXCEPT ![s] = Objs],
               nu, [ow EXCEPT ![s] = c], he, jo)
<1> DEFINE hc == [hd[c] EXCEPT !["full"] = s]
           h == [hd EXCEPT ![c] = hc]
           m == [mk EXCEPT ![s] = Objs]
           o == [ow EXCEPT ![s] = c]
           p == CacheLists(nx, hd, c)
           q == [next |-> nx, head |-> hc]
<1>0. /\ nx \in [Slabs -> Pointer] /\ hd \in [Caches -> [Kinds -> Pointer]]
      /\ mk \in Marks /\ nu \in Counts
      /\ ow \in [Slabs -> Caches \cup {Nil}] /\ he \subseteq Slabs \X Objs
  BY DEF Inv, TypeInv
<1>1. /\ nx[s] = Nil /\ nu[s] = 0 /\ c # Nil /\ s # Nil /\ s \in Pointer
      /\ "full" \in Kinds /\ "partial" \in Kinds /\ "empty" \in Kinds
  BY SlabAssumption, ReachType, Zenon DEF Inv, OwnInv, Pointer, Kinds
<1>2. /\ hc \in [Kinds -> Pointer] /\ hc["full"] = s
      /\ hc["partial"] = hd[c]["partial"] /\ hc["empty"] = hd[c]["empty"]
  BY <1>0, <1>1 DEF Kinds
<1> HIDE DEF hc
<1>3. TypeInv(nx, h, m, nu, o, he)
  BY <1>0, <1>2 DEF TypeInv, Marks
<1>4. /\ q \in QueueType /\ q.next = nx /\ q.head = hc
  BY <1>0, <1>2 DEF QueueType
<1>5. /\ p \in QueueType /\ p.next = nx /\ p.head = hd[c] /\ Within(p, Owned(ow, c))
  <2>1. /\ p \in QueueType /\ p.next = nx /\ p.head = hd[c]
    BY <1>0, CacheListsType
  <2>2. Within(p, Owned(ow, c))
    BY Zenon DEF Inv, OwnInv
  <2> QED
    BY <2>1, <2>2, Zenon
<1>6. CacheLists(nx, h, c) = q
  BY <1>0 DEF CacheLists
<1> HIDE DEF p, q
<1>7. /\ o \in [Slabs -> Caches \cup {Nil}] /\ o[s] = c /\ \A x \in Slabs \ {s} : o[x] = ow[x]
  BY <1>0
<1>8. /\ On(q, "full") = {s}
      /\ On(q, "partial") = On(p, "partial") /\ On(q, "empty") = On(p, "empty")
      /\ \A k \in Kinds : On(p, k) \subseteq Owned(ow, c)
  <2>1. Reach(nx, s) = {s}
    BY <1>0, <1>1, ReachNext, ReachNil
  <2> QED
    BY <1>2, <1>4, <1>5, <2>1, OnWithin, Zenon DEF On
<1>9. s \notin Owned(ow, c)
  BY <1>1 DEF Owned
<1>10. ASSUME NEW d \in Caches \ {c}
       PROVE  ListsKeep(d, nx, h, nu, o, jo)
  <2>1. Changes(c, nx, nu, ow, q.next, nu, o)
    BY <1>0, <1>4, <1>7 DEF Changes
  <2> HIDE DEF o
  <2>2. ListsKeep(d, q.next, [hd EXCEPT ![c] = q.head], nu, o, jo)
    BY <1>4, <2>1, OthersKeep, Zenon
  <2> QED
    BY <1>4, <2>2
<1>11. OwnInv(nx, h, nu, o, he)
  <2>1. Within(q, Owned(o, c))
    <3>1. Owned(o, c) = Owned(ow, c) \cup {s}
      BY <1>1, <1>7 DEF Owned
    <3> QED
      BY <1>1, <1>2, <1>4, <1>5, <3>1, Zenon DEF Within, Kinds
  <2>2. \A d \in Caches : Within(CacheLists(nx, h, d), Owned(o, d))
    BY <1>6, <1>10, <2>1, Zenon DEF ListsKeep
  <2>3. \A x \in Slabs : o[x] = Nil => nx[x] = Nil /\ nu[x] = 0
    BY <1>1, <1>7 DEF Inv, OwnInv
  <2>4. \A e \in he : o[e[1]] # Nil
    <3>1. \A e \in he : e[1] \in Slabs /\ ow[e[1]] # Nil
      BY <1>0 DEF Inv, OwnInv
    <3> QED
      BY <1>1, <1>7, <3>1
  <2> QED
    BY <2>2, <2>3, <2>4, Zenon DEF OwnInv
<1>12. MarkInv(m, nu, o, he)
  <2>1. m[s] = Objs /\ \A x \in Slabs \ {s} : m[x] = mk[x]
    BY <1>0 DEF Marks
  <2>2. \A i \in Objs : <<s, i>> \notin he
    BY Zenon DEF Inv, OwnInv
  <2>3. nu[s] = NObjs - Cardinality(Objs)
    BY <1>1, ObjsFinite, SlabAssumption
  <2> HIDE DEF m, o
  <2> QED
    BY <1>7, <2>1, <2>2, <2>3, Zenon DEF Inv, MarkInv
<1>13. FindInv(nx, h, nu, o)
  <2>1. ASSUME NEW x \in Slabs, o[x] = c, nu[x] # 0
        PROVE  Found(q, x)
    <3>1. x # s /\ ow[x] = c
      BY <1>1, <1>7, <2>1
    <3>2. Found(p, x)
      BY <1>1, <2>1, <3>1 DEF Inv, FindInv, p
    <3> QED
      BY <1>8, <3>2 DEF Found
  <2> HIDE DEF h, o
  <2> QED
    BY <1>6, <1>7, <1>10, <2>1, Zenon DEF FindInv, ListsKeep
<1>14. MetaInv(nx, h, m)
  <2>1. CASE c = Meta
    <3>1. h[Meta] = hc
      BY <1>0, <2>1
    <3>2. m[s] = Objs /\ 0 \in Objs
      BY <1>0, SlabAssumption DEF Marks, Objs
    <3> HIDE DEF h, m
    <3> QED
      BY <1>1, <1>2, <2>1, <3>1, <3>2 DEF MetaInv
  <2>2. CASE c # Meta
    <3>1. h[Meta] = hd[Meta] /\ Meta \in Caches /\ Meta # Nil
      BY <1>0, <2>2, SlabAssumption
    <3>2. Within(CacheLists(nx, hd, Meta), Owned(ow, Meta))
      BY <3>1 DEF Inv, OwnInv
    <3>3. \A k \in Kinds : hd[Meta][k] # Nil => hd[Meta][k] \in Owned(ow, Meta)
      BY <3>2 DEF Within, CacheLists
    <3>4. \A k \in Kinds : hd[Meta][k] # Nil => m[hd[Meta][k]] = mk[hd[Meta][k]]
      BY <1>0, <3>1, <3>3 DEF Owned, Marks
    <3>5. MetaInv(nx, hd, mk)
      BY Zenon DEF Inv
    <3> HIDE DEF h, m
    <3> QED
      BY <1>1, <3>1, <3>4, <3>5, Zenon DEF MetaInv
  <2> QED
    BY <2>1, <2>2
<1>15. KeptInv(nx, h, nu, jo)
  <2> SUFFICES ASSUME ~ jo
               PROVE  Kept(q, nu)
    BY <1>6, <1>10, Zenon DEF KeptInv, ListsKeep
  <2>1. Kept(p, nu)
    BY Zenon DEF Inv, KeptInv, p
  <2>2. \A k \in Kinds : Ends(nx, hd[c][k])
    BY <1>5, <2>1, Zenon DEF Kept, Apart
  <2>3. Ends(nx, s)
    BY <1>1, ReachHead DEF Ends
  <2>4. \A k \in Kinds : Ends(q.next, q.head[k])
    BY <1>1, <1>2, <1>4, <2>2, <2>3 DEF Kinds
  <2>5. s \notin On(p, "partial") /\ s \notin On(p, "empty")
    BY <1>1, <1>8, <1>9
  <2>6. On(p, "partial") \cap On(p, "empty") = {}
    BY <1>1, <2>1, Zenon DEF Kept, Apart
  <2>7. Apart(q)
    <3>1. ASSUME NEW k \in Kinds, NEW j \in Kinds \ {k}
          PROVE  On(q, k) \cap On(q, j) = {}
      <4>1. \A x, y \in {"partial", "full", "empty"} : x # y => On(q, x) \cap On(q, y) = {}
        BY <1>8, <2>5, <2>6, SMTT(30)
      <4> QED
        BY <4>1 DEF Kinds
    <3> QED
      BY <2>4, <3>1, Zenon DEF Apart
  <2>8. Fit(nu[s], "full")
    BY <1>1 DEF Fit
  <2>9. /\ \A x \in On(q, "partial") : Fit(nu[x], "partial")
        /\ \A x \in On(q, "empty") : Fit(nu[x], "empty")
    BY <1>1, <1>8, <2>1, Zenon DEF Kept
  <2> QED
    BY <1>8, <2>7, <2>8, <2>9, Zenon DEF Kept, Kinds
<1> HIDE DEF h, m, o
<1>16. Inv(nx, h, m, nu, o, he, jo)
  BY <1>3, <1>11, <1>12, <1>13, <1>14, <1>15, Zenon DEF Inv
<1> QED
  BY <1>16 DEF h, m, o, hc

(* The marks, the counts and the objects in use after an allocation.       *)
LEMMA TakeKeepsMarks ==
    ASSUME NEW mk \in Marks, NEW nu \in Counts, NEW ow, NEW he, MarkInv(mk, nu, ow, he),
           NEW s \in Slabs, NEW i \in mk[s]
    PROVE  MarkInv([mk EXCEPT ![s] = @ \ {i}], [nu EXCEPT ![s] = @ + 1], ow, he \cup {<<s, i>>})
<1> DEFINE m == [mk EXCEPT ![s] = @ \ {i}]
           n == [nu EXCEPT ![s] = @ + 1]
<1>1. /\ m[s] = mk[s] \ {i} /\ n[s] = nu[s] + 1 /\ mk[s] \in SUBSET Objs
      /\ \A x \in Slabs \ {s} : m[x] = mk[x] /\ n[x] = nu[x]
  BY DEF Marks, Counts
<1>2. /\ Cardinality(mk[s] \ {i}) = Cardinality(mk[s]) - 1 /\ Cardinality(mk[s]) \in Nat
  <2>1. IsFiniteSet(mk[s]) /\ Cardinality(mk[s]) \in Nat
    BY <1>1, ObjsFinite
  <2> QED
    BY <2>1, FS_RemoveElement, Zenon
<1> HIDE DEF m, n
<1>3. ASSUME NEW x \in Slabs
      PROVE  /\ \A j \in Objs : <<x, j>> \in he \cup {<<s, i>>} => j \notin m[x]
             /\ ow[x] # Nil => n[x] = NObjs - Cardinality(m[x])
  <2>0. /\ \A j \in Objs : <<x, j>> \in he => j \notin mk[x]
        /\ ow[x] # Nil => nu[x] = NObjs - Cardinality(mk[x])
    BY DEF MarkInv
  <2>1. CASE x # s
    BY <1>1, <2>0, <2>1
  <2>2. CASE x = s
    <3>1. \A j \in Objs : <<x, j>> \in he \cup {<<s, i>>} => j \notin m[x]
      BY <1>1, <2>0, <2>2
    <3>2. ASSUME ow[x] # Nil PROVE n[x] = NObjs - Cardinality(m[x])
      <4>1. nu[s] = NObjs - Cardinality(mk[s])
        BY <2>0, <2>2, <3>2
      <4>2. n[x] = nu[s] + 1 /\ Cardinality(m[x]) = Cardinality(mk[s]) - 1
        BY <1>1, <1>2, <2>2, Zenon
      <4> QED
        BY <1>2, <4>1, <4>2, SlabAssumption
    <3> QED
      BY <3>1, <3>2
  <2> QED
    BY <2>1, <2>2
<1>4. MarkInv(m, n, ow, he \cup {<<s, i>>})
  BY <1>3 DEF MarkInv
<1> QED
  BY <1>4 DEF m, n

LEMMA GiveKeepsMarks ==
    ASSUME NEW mk \in Marks, NEW nu \in Counts, NEW ow, NEW he, MarkInv(mk, nu, ow, he),
           NEW s \in Slabs, NEW i \in Objs, <<s, i>> \in he
    PROVE  MarkInv([mk EXCEPT ![s] = @ \cup {i}], [nu EXCEPT ![s] = @ - 1], ow, he \ {<<s, i>>})
<1> DEFINE m == [mk EXCEPT ![s] = @ \cup {i}]
           n == [nu EXCEPT ![s] = @ - 1]
<1>1. /\ m[s] = mk[s] \cup {i} /\ n[s] = nu[s] - 1 /\ mk[s] \in SUBSET Objs
      /\ \A x \in Slabs \ {s} : m[x] = mk[x] /\ n[x] = nu[x]
      /\ i \notin mk[s]
  BY DEF Marks, Counts, MarkInv
<1>2. /\ Cardinality(mk[s] \cup {i}) = Cardinality(mk[s]) + 1 /\ Cardinality(mk[s]) \in Nat
  <2>1. IsFiniteSet(mk[s]) /\ Cardinality(mk[s]) \in Nat
    BY <1>1, ObjsFinite
  <2> QED
    BY <1>1, <2>1, FS_AddElement, Zenon
<1> HIDE DEF m, n
<1>3. ASSUME NEW x \in Slabs
      PROVE  /\ \A j \in Objs : <<x, j>> \in he \ {<<s, i>>} => j \notin m[x]
             /\ ow[x] # Nil => n[x] = NObjs - Cardinality(m[x])
  <2>0. /\ \A j \in Objs : <<x, j>> \in he => j \notin mk[x]
        /\ ow[x] # Nil => nu[x] = NObjs - Cardinality(mk[x])
    BY DEF MarkInv
  <2>1. CASE x # s
    BY <1>1, <2>0, <2>1
  <2>2. CASE x = s
    <3>1. \A j \in Objs : <<x, j>> \in he \ {<<s, i>>} => j \notin m[x]
      BY <1>1, <2>0, <2>2
    <3>2. ASSUME ow[x] # Nil PROVE n[x] = NObjs - Cardinality(m[x])
      <4>1. nu[s] = NObjs - Cardinality(mk[s])
        BY <2>0, <2>2, <3>2
      <4>2. n[x] = nu[s] - 1 /\ Cardinality(m[x]) = Cardinality(mk[s]) + 1
        BY <1>1, <1>2, <2>2, Zenon
      <4> QED
        BY <1>2, <4>1, <4>2, SlabAssumption
    <3> QED
      BY <3>1, <3>2
  <2> QED
    BY <2>1, <2>2
<1>4. MarkInv(m, n, ow, he \ {<<s, i>>})
  BY <1>3 DEF MarkInv
<1> QED
  BY <1>4 DEF m, n

(* An allocation from lists that are not empty.                            *)
AllocResult(r, nx, hd, ow, he, jo, c) ==
    Inv(r.q.next, [hd EXCEPT ![c] = r.q.head], r.marks, r.nused, ow, he \cup r.obj,
        jo \/ Joins(CacheLists(nx, hd, c)))

LEMMA AllocKeeps ==
    ASSUME NEW nx, NEW hd, NEW mk, NEW nu, NEW ow, NEW he, NEW jo,
           Inv(nx, hd, mk, nu, ow, he, jo),
           NEW c \in Caches, hd[c]["partial"] # Nil \/ hd[c]["full"] # Nil
    PROVE  AllocResult(AllocFrom(CacheLists(nx, hd, c), mk, nu), nx, hd, ow, he, jo, c)
<1> DEFINE q == CacheLists(nx, hd, c)
           r == AllocFrom(q, mk, nu)
           s == Source(q)
           h == [hd EXCEPT ![c] = r.q.head]
           e == he \cup r.obj
           t == Retire(TakeFull(q), s, r.nused[s])
<1>0. /\ nx \in [Slabs -> Pointer] /\ hd \in [Caches -> [Kinds -> Pointer]]
      /\ mk \in Marks /\ nu \in Counts
      /\ ow \in [Slabs -> Caches \cup {Nil}] /\ he \subseteq Slabs \X Objs
  BY DEF Inv, TypeInv
<1>1. /\ q \in QueueType /\ q.next = nx /\ q.head = hd[c]
  BY <1>0, CacheListsType
<1>2. Within(q, Owned(ow, c)) /\ c # Nil
  BY SlabAssumption, Zenon DEF Inv, OwnInv
<1>3. MarkInv(mk, nu, ow, he)
  BY Zenon DEF Inv
<1> HIDE DEF q
<1>4. q.head["partial"] # Nil \/ q.head["full"] # Nil
  BY <1>1, Zenon
<1>5. /\ s \in Slabs
      /\ r.q = Retire(TakeFull(q), s, r.nused[s])
      /\ Takes(r, s, mk, nu)
  BY <1>0, <1>1, <1>4, AllocTakes, Zenon
<1> HIDE DEF r
<1>6. /\ t \in QueueType
      /\ \A x \in Slabs \ {s} : t.next[x] = q.next[x]
      /\ t.next[s] \in {q.next[s], q.head["empty"]}
      /\ \A y : Found(q, y) => Found(t, y)
      /\ Found(t, s)
      /\ \A O : Within(q, O) => Within(t, O)
  BY <1>1, <1>4, AllocLists, Zenon
<1>7. r.q = t
  BY <1>5
<1> HIDE DEF t
<1>8. s \in Owned(ow, c) /\ ow[s] = c
  BY <1>2, <1>4 DEF Source, Within, Kinds, Owned
<1> HIDE DEF s
<1>9. /\ r.marks \in Marks /\ r.nused \in Counts
      /\ r.obj \subseteq Slabs \X Objs
      /\ \A o \in r.obj : o[1] = s
      /\ \A x \in Slabs \ {s} : r.nused[x] = nu[x] /\ r.marks[x] = mk[x]
  <2>1. CASE mk[s] = {}
    BY <1>0, <1>5, <2>1, Zenon DEF Takes
  <2>2. ASSUME NEW i \in mk[s], r.marks = [mk EXCEPT ![s] = @ \ {i}],
               r.nused = [nu EXCEPT ![s] = @ + 1], r.obj = {<<s, i>>}
        PROVE  /\ r.marks \in Marks /\ r.nused \in Counts
               /\ r.obj \subseteq Slabs \X Objs
               /\ \A o \in r.obj : o[1] = s
               /\ \A x \in Slabs \ {s} : r.nused[x] = nu[x] /\ r.marks[x] = mk[x]
    <3>1. mk[s] \subseteq Objs
      BY <1>0, <1>5 DEF Marks
    <3>2. r.marks \in Marks /\ r.nused \in Counts
      <4>1. mk[s] \ {i} \in SUBSET Objs /\ nu[s] + 1 \in Int
        BY <1>0, <1>5, <3>1 DEF Counts
      <4> QED
        <5>1. r.marks \in Marks
          BY <1>0, <2>2, <4>1, Zenon DEF Marks
        <5>2. r.nused \in Counts
          BY <1>0, <2>2, <4>1, Zenon DEF Counts
        <5> QED
          BY <5>1, <5>2
    <3>3. r.obj \subseteq Slabs \X Objs /\ \A o \in r.obj : o[1] = s
      BY <1>5, <2>2, <3>1
    <3>4. \A x \in Slabs \ {s} : r.nused[x] = nu[x] /\ r.marks[x] = mk[x]
      BY <1>0, <2>2 DEF Marks, Counts
    <3> QED
      BY <3>2, <3>3, <3>4
  <2> QED
    BY <1>5, <2>1, <2>2, Zenon DEF Takes
<1>10. TypeInv(r.q.next, h, r.marks, r.nused, ow, e)
  BY <1>0, <1>6, <1>7, <1>9, Zenon DEF TypeInv, QueueType
<1>11. ASSUME NEW d \in Caches \ {c}
       PROVE  ListsKeep(d, r.q.next, h, r.nused, ow, jo)
  <2>1. Changes(c, nx, nu, ow, t.next, r.nused, ow)
    BY <1>0, <1>1, <1>6, <1>8, <1>9, Zenon DEF Changes
  <2>2. ListsKeep(d, t.next, [hd EXCEPT ![c] = t.head], r.nused, ow, jo)
    BY <1>6, <2>1, OthersKeep, Zenon
  <2> QED
    BY <1>7, <2>2
<1>12. CacheLists(r.q.next, h, c) = t
  BY <1>0, <1>6, <1>7, Zenon DEF CacheLists, QueueType
<1>13. OwnInv(r.q.next, h, r.nused, ow, e)
  <2>1. \A d \in Caches : Within(CacheLists(r.q.next, h, d), Owned(ow, d))
    BY <1>2, <1>6, <1>11, <1>12, Zenon DEF ListsKeep
  <2>2. \A x \in Slabs : ow[x] = Nil => r.q.next[x] = Nil /\ r.nused[x] = 0
    BY <1>1, <1>2, <1>6, <1>7, <1>8, <1>9, Zenon DEF Inv, OwnInv
  <2>3. \A o \in e : ow[o[1]] # Nil
    BY <1>2, <1>8, <1>9, Zenon DEF Inv, OwnInv
  <2> HIDE DEF h, e
  <2> QED
    BY <2>1, <2>2, <2>3, Zenon DEF OwnInv
<1>14. MarkInv(r.marks, r.nused, ow, e)
  <2>1. CASE mk[s] = {}
    BY <1>3, <1>5, <2>1 DEF Takes
  <2>2. CASE mk[s] # {}
    <3>1. PICK i \in mk[s] :
            /\ r.marks = [mk EXCEPT ![s] = @ \ {i}]
            /\ r.nused = [nu EXCEPT ![s] = @ + 1]
            /\ r.obj = {<<s, i>>}
      BY <1>5, <2>2, Zenon DEF Takes
    <3>2. MarkInv([mk EXCEPT ![s] = @ \ {i}], [nu EXCEPT ![s] = @ + 1], ow, he \cup {<<s, i>>})
      BY <1>0, <1>3, <1>5, TakeKeepsMarks, Zenon
    <3> QED
      BY <3>1, <3>2
  <2> QED
    BY <2>1, <2>2, Zenon
<1>15. FindInv(r.q.next, h, r.nused, ow)
  <2>1. ASSUME NEW x \in Slabs, ow[x] = c, r.nused[x] # 0
        PROVE  Found(t, x)
    <3>1. CASE x = s
      BY <1>6, <3>1
    <3>2. CASE x # s
      <4>1. nu[x] # 0
        BY <1>9, <2>1, <3>2
      <4>2. Found(q, x)
        BY <1>2, <2>1, <4>1, Zenon DEF Inv, FindInv, q
      <4> QED
        BY <1>6, <4>2
    <3> QED
      BY <3>1, <3>2, Zenon
  <2> HIDE DEF h
  <2> QED
    BY <1>0, <1>11, <1>12, <2>1, Zenon DEF FindInv, ListsKeep
<1>16. nu[s] = NObjs - Cardinality(mk[s]) /\ (mk[s] = {} => Cardinality(mk[s]) = 0)
  BY <1>2, <1>3, <1>5, <1>8, FS_EmptySet, Zenon DEF MarkInv
<1>17. KeptInv(r.q.next, h, r.nused, jo \/ Joins(q))
  <2> SUFFICES ASSUME ~ jo, ~ Joins(q)
               PROVE  Kept(t, r.nused)
    BY <1>11, <1>12, Zenon DEF KeptInv, ListsKeep
  <2>1. Kept(q, nu)
    BY Zenon DEF Inv, KeptInv, q
  <2> DEFINE n == [nu EXCEPT ![s] = @ + 1]
  <2>2. Kept(Retire(TakeFull(q), s, n[s]), n) /\ nu[s] \in 0 .. NObjs - 1
    <3>1. q \in QueueType /\ nu \in Counts
      BY <1>0, <1>1
    <3> QED
      BY <1>4, <2>1, <3>1, AllocKept DEF s
  <2>3. mk[s] # {}
    <3>1. NObjs \in Nat
      BY SlabAssumption
    <3>2. nu[s] # NObjs
      BY <2>2, <3>1
    <3> QED
      BY <1>16, <3>1, <3>2
  <2>4. r.nused = n
    BY <1>5, <2>3, Zenon DEF Takes
  <2> HIDE DEF n
  <2> QED
    BY <1>5, <1>7, <2>2, <2>4, Zenon
<1>18. MetaInv(r.q.next, h, r.marks)
  <2>0. MetaInv(nx, hd, mk)
    BY DEF Inv
  <2>1. CASE c = Meta
    <3>1. h[Meta] = t.head /\ r.q.next = t.next
      BY <1>0, <1>7, <2>1
    <3>2. q.next[s] = Nil /\ mk[s] # {}
      BY <1>1, <1>4, <2>0, <2>1 DEF MetaInv, s, Source
    <3>3. TakeFull(q).head["full"] = Nil
      <4>1. q.head["partial"] # Nil => q.head["full"] = Nil
        BY <1>1, <2>0, <2>1 DEF MetaInv
      <4>2. CASE q.head["partial"] # Nil
        BY <4>1, <4>2 DEF TakeFull
      <4>3. CASE q.head["partial"] = Nil
        <5>1. s = q.head["full"]
          BY <4>3 DEF s, Source
        <5> QED
          BY <1>1, <3>2, <4>3, <5>1 DEF TakeFull, QueueType, Kinds
      <4> QED
        BY <4>2, <4>3
    <3>4. /\ TakeFull(q) \in QueueType /\ TakeFull(q).next = nx /\ TakeFull(q).head["partial"] = s
      BY <1>1, <1>4, FoundAfterTake, Zenon DEF s, Source
    <3> DEFINE w == TakeFull(q)
    <3> HIDE DEF w, h
    <3>5. CASE r.nused[s] = NObjs
      <4>1. t = Push([w EXCEPT !.head["partial"] = w.next[s]], "empty", s)
        BY <1>5, <1>7, <3>5 DEF Retire, w
      <4>2. t.head["partial"] = Nil /\ t.head["full"] = Nil
        BY <1>1, <3>2, <3>3, <3>4, <4>1 DEF Push, QueueType, Kinds, w
      <4> QED
        BY <3>1, <4>2, Zenon DEF MetaInv
    <3>6. CASE r.nused[s] # NObjs
      <4>1. t = w
        BY <1>5, <1>7, <3>6 DEF Retire, w
      <4>2. r.marks[s] # {}
        <5>1. r.nused[s] = NObjs - Cardinality(r.marks[s])
          BY <1>2, <1>5, <1>8, <1>14, Zenon DEF MarkInv
        <5>2. r.marks[s] = {} => Cardinality(r.marks[s]) = 0
          BY FS_EmptySet, Zenon
        <5> QED
          BY <3>6, <5>1, <5>2, SlabAssumption
      <4> QED
        BY <1>1, <3>1, <3>2, <3>3, <3>4, <4>1, <4>2, Zenon DEF MetaInv, w
    <3> QED
      BY <3>5, <3>6
  <2>2. CASE c # Meta
    <3>1. h[Meta] = hd[Meta] /\ Meta \in Caches /\ Meta # Nil
      BY <1>0, <2>2, SlabAssumption
    <3>2. Within(CacheLists(nx, hd, Meta), Owned(ow, Meta))
      BY <3>1 DEF Inv, OwnInv
    <3>3. \A k \in Kinds : hd[Meta][k] # Nil => hd[Meta][k] \in Owned(ow, Meta)
      BY <3>2 DEF Within, CacheLists
    <3>4. \A k \in Kinds : hd[Meta][k] # Nil =>
             /\ r.marks[hd[Meta][k]] = mk[hd[Meta][k]]
             /\ r.q.next[hd[Meta][k]] = nx[hd[Meta][k]]
      BY <1>1, <1>6, <1>7, <1>8, <1>9, <2>2, <3>3, Zenon DEF Owned
    <3> HIDE DEF h
    <3>5. "partial" \in Kinds /\ "full" \in Kinds
      BY Zenon DEF Kinds
    <3> QED
      BY <2>0, <3>1, <3>4, <3>5, Zenon DEF MetaInv
  <2> QED
    BY <2>1, <2>2
<1>19. Inv(r.q.next, h, r.marks, r.nused, ow, e, jo \/ Joins(q))
  <2> HIDE DEF h, e
  <2> QED
    BY <1>10, <1>13, <1>14, <1>15, <1>17, <1>18, Zenon DEF Inv
<1> QED
  BY <1>19 DEF AllocResult, r, q

(* What giving back an object of slab s does to the lists p of its cache,  *)
(* whose slabs are O.                                                      *)
Returns(p, q, s, O) ==
    /\ q \in QueueType
    /\ Within(q, O) /\ \A x \in Slabs \ O : q.next[x] = p.next[x]
    /\ \A y : Found(p, y) /\ (nused[s] = 1 => y # s) => Found(q, y)
    /\ Kept(p, nused) => Kept(q, [nused EXCEPT ![s] = @ - 1])

LEMMA ReturnPartial ==
    ASSUME NEW p \in QueueType, NEW O, Within(p, O), nused \in Counts, NEW s \in On(p, "partial")
    PROVE  Returns(p, Refill(p, s), s, O)
<1>1. /\ Refill(p, s) \in QueueType
      /\ \A y : Found(p, y) /\ (nused[s] = 1 => y # s) => Found(Refill(p, s), y)
      /\ Within(Refill(p, s), O) /\ \A x \in Slabs \ O : Refill(p, s).next[x] = p.next[x]
  BY RefillLists
<1>2. Kept(p, nused) => Kept(Refill(p, s), [nused EXCEPT ![s] = @ - 1])
  BY FreePartialKept
<1> QED
  BY <1>1, <1>2 DEF Returns

LEMMA ReturnEmpty ==
    ASSUME NEW p \in QueueType, NEW O, Within(p, O), nused \in Counts, NEW s \in On(p, "empty")
    PROVE  Returns(p, Refill(Push(Unlink(p, "empty", s), "partial", s), s), s, O)
<1> DEFINE m == Push(Unlink(p, "empty", s), "partial", s)
<1>0. "partial" \in Kinds /\ "empty" \in Kinds
  BY DEF Kinds
<1>1. /\ m \in QueueType /\ s \in On(m, "partial")
      /\ Within(m, O) /\ \A x \in Slabs \ O : m.next[x] = p.next[x]
  BY <1>0, MoveLists
<1>2. \A y : Found(p, y) => Found(m, y)
  BY FoundAfterMove
<1>3. Kept(p, nused) => Kept(Refill(m, s), [nused EXCEPT ![s] = @ - 1])
  BY FreeEmptyKept
<1> HIDE DEF m
<1>4. /\ Refill(m, s) \in QueueType
      /\ \A y : Found(m, y) /\ (nused[s] = 1 => y # s) => Found(Refill(m, s), y)
      /\ Within(Refill(m, s), O) /\ \A x \in Slabs \ O : Refill(m, s).next[x] = m.next[x]
  BY <1>1, RefillLists
<1>5. Returns(p, Refill(m, s), s, O)
  BY <1>1, <1>2, <1>3, <1>4 DEF Returns
<1> QED
  BY <1>5 DEF m

LEMMA FreeKeeps ==
    ASSUME Inv(next, head, marks, nused, owner, held, joined),
           NEW c \in Caches \ {Meta}, NEW s \in Slabs, owner[s] = c,
           NEW i \in Objs, <<s, i>> \in held,
           NEW q, Returns(CacheLists(next, head, c), q, s, Owned(owner, c))
    PROVE  Inv(q.next, [head EXCEPT ![c] = q.head], [marks EXCEPT ![s] = @ \cup {i}],
               [nused EXCEPT ![s] = @ - 1], owner, held \ {<<s, i>>}, joined)
<1> DEFINE p == CacheLists(next, head, c)
           h == [head EXCEPT ![c] = q.head]
           m == [marks EXCEPT ![s] = @ \cup {i}]
           n == [nused EXCEPT ![s] = @ - 1]
           e == held \ {<<s, i>>}
<1>0. /\ next \in [Slabs -> Pointer] /\ head \in [Caches -> [Kinds -> Pointer]]
      /\ marks \in Marks /\ nused \in Counts
      /\ owner \in [Slabs -> Caches \cup {Nil}] /\ held \subseteq Slabs \X Objs
  BY DEF Inv, TypeInv
<1>1. /\ p \in QueueType /\ p.next = next /\ p.head = head[c]
  <2>1. next \in [Slabs -> Pointer] /\ head \in [Caches -> [Kinds -> Pointer]] /\ c \in Caches
    BY <1>0
  <2> QED
    BY <2>1 DEF CacheLists, QueueType
<1>2. /\ q \in QueueType
      /\ Within(q, Owned(owner, c)) /\ \A x \in Slabs \ Owned(owner, c) : q.next[x] = next[x]
      /\ \A y : Found(p, y) /\ (nused[s] = 1 => y # s) => Found(q, y)
      /\ Kept(p, nused) => Kept(q, n)
  BY <1>1, Zenon DEF Returns
<1> HIDE DEF p
<1>3. c # Nil /\ Meta # Nil /\ Meta \in Caches
  BY SlabAssumption
<1>4. m \in Marks /\ n \in Counts
  <2>1. marks[s] \cup {i} \in SUBSET Objs /\ nused[s] - 1 \in Int
    BY <1>0 DEF Marks, Counts
  <2> QED
    BY <1>0, <2>1 DEF Marks, Counts
<1>5. /\ \A x \in Slabs \ {s} : n[x] = nused[x] /\ m[x] = marks[x]
      /\ n[s] = nused[s] - 1 /\ nused[s] \in Int
  BY <1>0 DEF Marks, Counts
<1>6. TypeInv(q.next, h, m, n, owner, e)
  BY <1>0, <1>2, <1>4 DEF TypeInv, QueueType
<1>7. MarkInv(m, n, owner, e)
  BY <1>0, GiveKeepsMarks, Zenon DEF Inv
<1> HIDE DEF m, n
<1>8. ASSUME NEW d \in Caches \ {c}
      PROVE  ListsKeep(d, q.next, h, n, owner, joined)
  <2>1. Changes(c, next, nused, owner, q.next, n, owner)
    BY <1>0, <1>2, <1>4, <1>5, Zenon DEF Changes, Owned
  <2> QED
    BY <1>2, <2>1, OthersKeep, Zenon
<1>9. CacheLists(q.next, h, c) = q
  BY <1>0, <1>2 DEF CacheLists, QueueType
<1>10. OwnInv(q.next, h, n, owner, e)
  <2>1. \A d \in Caches : Within(CacheLists(q.next, h, d), Owned(owner, d))
    BY <1>2, <1>8, <1>9, Zenon DEF ListsKeep
  <2>2. \A x \in Slabs : owner[x] = Nil => q.next[x] = Nil /\ n[x] = 0
    BY <1>2, <1>3, <1>5, Zenon DEF Inv, OwnInv, Owned
  <2>3. \A o \in e : owner[o[1]] # Nil
    BY Zenon DEF Inv, OwnInv
  <2> HIDE DEF h, e
  <2> QED
    BY <2>1, <2>2, <2>3, Zenon DEF OwnInv
<1>11. FindInv(q.next, h, n, owner)
  <2>1. ASSUME NEW x \in Slabs, owner[x] = c, n[x] # 0
        PROVE  Found(q, x)
    <3>1. nused[x] # 0 /\ (nused[s] = 1 => x # s)
      <4>1. CASE x # s
        BY <1>5, <2>1, <4>1, Zenon
      <4>2. CASE x = s
        <5>1. nused[s] # 0
          <6>1. i \notin marks[s] /\ nused[s] = NObjs - Cardinality(marks[s])
            BY <1>3, Zenon DEF Inv, MarkInv
          <6>2. marks[s] \in SUBSET Objs /\ marks[s] # Objs
            BY <1>0, <6>1 DEF Marks
          <6> QED
            BY <6>1, <6>2, SomeUsed, Zenon
        <5>2. nused[s] # 1
          BY <1>5, <2>1, <4>2
        <5> QED
          BY <4>2, <5>1, <5>2
      <4> QED
        BY <4>1, <4>2, Zenon
    <3>2. Found(p, x)
      BY <1>3, <2>1, <3>1, Zenon DEF Inv, FindInv, p
    <3> QED
      BY <1>2, <3>1, <3>2, Zenon
  <2> HIDE DEF h
  <2> QED
    BY <1>0, <1>8, <1>9, <2>1, Zenon DEF FindInv, ListsKeep
<1>12. KeptInv(q.next, h, n, joined)
  <2> SUFFICES ASSUME ~ joined
               PROVE  Kept(q, n)
    BY <1>8, <1>9, Zenon DEF KeptInv, ListsKeep
  <2>1. Kept(p, nused)
    BY DEF Inv, KeptInv, p
  <2> QED
    BY <1>2, <2>1, Zenon
<1>13. MetaInv(q.next, h, m)
  <2>0. MetaInv(next, head, marks)
    BY DEF Inv
  <2>1. h[Meta] = head[Meta]
    BY <1>0, <1>3, Zenon
  <2>2. Within(CacheLists(next, head, Meta), Owned(owner, Meta))
    BY <1>3, Zenon DEF Inv, OwnInv
  <2>3. \A k \in Kinds : head[Meta][k] # Nil => head[Meta][k] \in Owned(owner, Meta)
    BY <2>2, Zenon DEF Within, CacheLists
  <2>4. \A k \in Kinds : head[Meta][k] # Nil =>
             /\ m[head[Meta][k]] = marks[head[Meta][k]]
             /\ q.next[head[Meta][k]] = next[head[Meta][k]]
    BY <1>2, <1>5, <2>3, Zenon DEF Owned
  <2>5. "partial" \in Kinds /\ "full" \in Kinds
    BY DEF Kinds
  <2> HIDE DEF h
  <2> QED
    BY <2>0, <2>1, <2>4, <2>5, Zenon DEF MetaInv
<1>14. Inv(q.next, h, m, n, owner, e, joined)
  <2> HIDE DEF h, e
  <2> QED
    BY <1>6, <1>7, <1>10, <1>11, <1>12, <1>13 DEF Inv
<1> QED
  BY <1>14 DEF m, n

-----------------------------------------------------------------------------
(* The inductive invariant.  Inv says that the lists of a cache stay with  *)
(* its slabs, that a slab with objects in use is found on them, that marks *)
(* and counts agree, that the cache of caches can always give, and, until  *)
(* lists have joined, that they end, are apart and hold slabs that fit.    *)
SlabInv ==
    /\ Inv(next, head, marks, nused, owner, held, joined)
    /\ joined \in BOOLEAN
    /\ Meta \in created /\ created \subseteq Caches
    /\ \A s \in Slabs : owner[s] # Nil => owner[s] \in created
    /\ ~ joined => status # "hung"

LEMMA ReachSingle ==
    ASSUME NEW f \in [Slabs -> Pointer], NEW s \in Slabs, f[s] = Nil
    PROVE  Ends(f, s) /\ Reach(f, s) = {s}
<1>1. s \in Pointer /\ Reach(f, Nil) = {}
  BY ReachNil DEF Pointer
<1>2. s \in Reach(f, s) /\ Reach(f, s) = {s} \cup Reach(f, f[s])
  BY <1>1, ReachHead, ReachNext
<1> QED
  BY <1>1, <1>2 DEF Ends

LEMMA InitInv ==
    ASSUME Init
    PROVE  SlabInv
<1>0. /\ 1 \in Slabs /\ 0 \in Objs /\ Meta \in Caches /\ Nil \notin Slabs /\ Nil \notin Caches
      /\ Nil \in Pointer /\ 1 \in Pointer /\ 1 # Nil /\ Meta # Nil
      /\ NObjs \in Nat /\ NObjs > 1
  BY SlabAssumption DEF Slabs, Objs, Pointer
<1>1. NoLists \in [Kinds -> Pointer] /\ [NoLists EXCEPT !["partial"] = 1] \in [Kinds -> Pointer]
  BY <1>0 DEF NoLists, Kinds
<1>2. TypeInv(next, head, marks, nused, owner, held)
  <2>1. next \in [Slabs -> Pointer] /\ head \in [Caches -> [Kinds -> Pointer]]
    BY <1>0, <1>1 DEF Init
  <2>2. marks \in Marks /\ nused \in Counts
    BY DEF Init, Marks, Counts
  <2>3. owner \in [Slabs -> Caches \cup {Nil}] /\ held \subseteq Slabs \X Objs
    BY <1>0 DEF Init
  <2> QED
    BY <2>1, <2>2, <2>3 DEF TypeInv
<1>3. /\ head[Meta]["partial"] = 1 /\ head[Meta]["full"] = Nil /\ head[Meta]["empty"] = Nil
      /\ \A c \in Caches \ {Meta}, k \in Kinds : head[c][k] = Nil
  BY <1>0 DEF Init, NoLists, Kinds
<1>4. /\ next[1] = Nil /\ marks[1] = Objs \ {0} /\ nused[1] = 1 /\ owner[1] = Meta
      /\ \A x \in Slabs : next[x] = Nil
      /\ \A x \in Slabs \ {1} : nused[x] = 0 /\ owner[x] = Nil
  BY <1>0 DEF Init
<1>5. OwnInv(next, head, nused, owner, held)
  <2>1. ASSUME NEW c \in Caches PROVE Within(CacheLists(next, head, c), Owned(owner, c))
    <3>1. ASSUME NEW k \in Kinds, head[c][k] # Nil PROVE head[c][k] \in Owned(owner, c)
      <4>1. c = Meta /\ k = "partial" /\ head[c][k] = 1
        BY <1>3, <3>1 DEF Kinds
      <4> QED
        BY <1>0, <1>4, <4>1 DEF Owned
    <3> QED
      BY <1>4, <3>1 DEF Within, CacheLists
  <2> QED
    BY <1>0, <1>4, <2>1 DEF OwnInv, Init
<1>6. MarkInv(marks, nused, owner, held)
  <2>1. Cardinality(Objs \ {0}) = NObjs - 1
    BY <1>0, ObjsFinite, FS_RemoveElement
  <2>2. held = {<<1, 0>>}
    BY DEF Init
  <2> QED
    BY <1>0, <1>4, <2>1, <2>2 DEF MarkInv
<1>7. On(CacheLists(next, head, Meta), "partial") = {1}
  <2>1. Reach(next, 1) = {1}
    BY <1>0, <1>2, <1>4, ReachSingle DEF TypeInv
  <2> QED
    BY <1>3, <2>1 DEF On, CacheLists
<1>8. FindInv(next, head, nused, owner)
  <2>1. Found(CacheLists(next, head, Meta), 1)
    BY <1>7 DEF Found
  <2> QED
    BY <1>0, <1>4, <2>1 DEF FindInv
<1>9. MetaInv(next, head, marks)
  <2>1. 1 \in Objs
    BY SlabAssumption DEF Objs
  <2> QED
    BY <1>3, <1>4, <2>1 DEF MetaInv
<1>10. KeptInv(next, head, nused, joined)
  <2>1. ASSUME NEW c \in Caches, NEW k \in Kinds
        PROVE  /\ Ends(next, head[c][k])
               /\ Reach(next, head[c][k]) = IF c = Meta /\ k = "partial" THEN {1} ELSE {}
    <3>0. next \in [Slabs -> Pointer]
      BY <1>2 DEF TypeInv
    <3>1. CASE c = Meta /\ k = "partial"
      BY <1>0, <1>3, <1>4, <3>0, <3>1, ReachSingle
    <3>2. CASE ~ (c = Meta /\ k = "partial")
      <4>1. head[c][k] = Nil
        BY <1>3, <3>2 DEF Kinds
      <4> QED
        BY <3>0, <3>2, <4>1, ReachNil DEF Ends
    <3> QED
      BY <3>1, <3>2
  <2>2. ASSUME NEW c \in Caches
        PROVE  Kept(CacheLists(next, head, c), nused)
    <3> DEFINE q == CacheLists(next, head, c)
    <3>1. \A k \in Kinds : /\ Ends(q.next, q.head[k])
                           /\ On(q, k) = IF c = Meta /\ k = "partial" THEN {1} ELSE {}
      BY <2>1 DEF CacheLists, On
    <3> HIDE DEF q
    <3>2. Apart(q)
      BY <3>1 DEF Apart
    <3>3. Fit(nused[1], "partial")
      BY <1>0, <1>4 DEF Fit
    <3>4. Kept(q, nused)
      BY <3>1, <3>2, <3>3 DEF Kept
    <3> QED
      BY <3>4 DEF q
  <2> QED
    BY <2>2 DEF KeptInv
<1>11. Inv(next, head, marks, nused, owner, held, joined)
  BY <1>2, <1>5, <1>6, <1>8, <1>9, <1>10 DEF Inv
<1> QED
  BY <1>0, <1>4, <1>11, Zenon DEF SlabInv, Init

LEMMA InvUnjoined ==
    ASSUME NEW nx, NEW hd, NEW mk, NEW nu, NEW ow, NEW he, NEW jo, NEW b,
           Inv(nx, hd, mk, nu, ow, he, jo \/ b), ~ b
    PROVE  Inv(nx, hd, mk, nu, ow, he, jo)
<1>1. KeptInv(nx, hd, nu, jo \/ b) => KeptInv(nx, hd, nu, jo)
  BY DEF KeptInv
<1> QED
  BY <1>1 DEF Inv

LEMMA AllocListedInv ==
    ASSUME SlabInv, NEW c \in Caches, AllocListed(c)
    PROVE  SlabInv'
<1> DEFINE r == AllocFrom(Lists(c), marks, nused)
<1>1. AllocResult(r, next, head, owner, held, joined, c)
  BY AllocKeeps, Zenon DEF SlabInv, AllocListed, HasSlabs, Lists, CacheLists
<1>2. Inv(r.q.next, [head EXCEPT ![c] = r.q.head], r.marks, r.nused, owner, held \cup r.obj,
          joined \/ Joins(Lists(c)))
  BY <1>1, Zenon DEF AllocResult, Lists, CacheLists
<1>3. /\ next' = r.q.next /\ head' = [head EXCEPT ![c] = r.q.head]
      /\ marks' = r.marks /\ nused' = r.nused /\ held' = held \cup r.obj
      /\ joined' = (joined \/ Joins(Lists(c)))
      /\ owner' = owner /\ created' = created /\ status' = status
  BY Zenon DEF AllocListed
<1> HIDE DEF r
<1>4. Inv(next', head', marks', nused', owner', held', joined')
  BY <1>2, <1>3, Zenon
<1>5. joined' \in BOOLEAN /\ (joined => joined')
  BY <1>3, Zenon
<1> QED
  BY <1>3, <1>4, <1>5, Zenon DEF SlabInv

(* A new slab, then an allocation from it.                                 *)
LEMMA GrowThenAlloc ==
    ASSUME NEW nx, NEW hd, NEW mk, NEW nu, NEW ow, NEW he, NEW jo,
           Inv(nx, hd, mk, nu, ow, he, jo),
           NEW c \in Caches, hd[c]["partial"] = Nil, hd[c]["full"] = Nil,
           NEW s \in Slabs, ow[s] = Nil,
           NEW r, r = AllocFrom([next |-> nx, head |-> [hd[c] EXCEPT !["full"] = s]],
                                [mk EXCEPT ![s] = Objs], nu)
    PROVE  Inv(r.q.next, [hd EXCEPT ![c] = r.q.head], r.marks, r.nused,
               [ow EXCEPT ![s] = c], he \cup r.obj, jo)
<1> DEFINE hc == [hd[c] EXCEPT !["full"] = s]
           h == [hd EXCEPT ![c] = hc]
           m == [mk EXCEPT ![s] = Objs]
           o == [ow EXCEPT ![s] = c]
<1>1. Inv(nx, h, m, nu, o, he, jo)
  BY GrowKeeps, Zenon
<1>2. hd \in [Caches -> [Kinds -> Pointer]] /\ s # Nil /\ nx[s] = Nil /\ "full" \in Kinds
  BY SlabAssumption DEF Inv, TypeInv, OwnInv, Slabs, Kinds
<1>3. h[c] = hc /\ hc["full"] = s /\ hc["partial"] = Nil
  BY <1>2, Zenon DEF Kinds
<1>4. CacheLists(nx, h, c) = [next |-> nx, head |-> hc]
  BY <1>3 DEF CacheLists
<1>5. ~ Joins(CacheLists(nx, h, c))
  <2> HIDE DEF hc, h
  <2>1. CacheLists(nx, h, c).next = nx /\ CacheLists(nx, h, c).head = hc
    BY <1>3 DEF CacheLists
  <2> QED
    BY <1>2, <1>3, <2>1, Zenon DEF Joins
<1>6. [h EXCEPT ![c] = r.q.head] = [hd EXCEPT ![c] = r.q.head]
  BY <1>2, Zenon
<1>7. r = AllocFrom(CacheLists(nx, h, c), m, nu)
  BY <1>4
<1> HIDE DEF h, m, o, hc
<1>8. AllocResult(r, nx, h, o, he, jo, c)
  <2>1. h[c]["partial"] # Nil \/ h[c]["full"] # Nil
    BY <1>2, <1>3
  <2> QED
    <3>1. AllocResult(AllocFrom(CacheLists(nx, h, c), m, nu), nx, h, o, he, jo, c)
      BY <1>1, <2>1, AllocKeeps, Zenon
    <3> QED
      BY <1>7, <3>1, Zenon
<1>9. Inv(r.q.next, [h EXCEPT ![c] = r.q.head], r.marks, r.nused, o, he \cup r.obj,
          jo \/ Joins(CacheLists(nx, h, c)))
  BY <1>8 DEF AllocResult
<1>10. Inv(r.q.next, [h EXCEPT ![c] = r.q.head], r.marks, r.nused, o, he \cup r.obj, jo)
  BY <1>5, <1>9, InvUnjoined
<1> QED
  BY <1>6, <1>10 DEF o

LEMMA AllocGrownInv ==
    ASSUME SlabInv, NEW c \in Caches, NEW s \in Slabs, AllocGrown(c, s)
    PROVE  SlabInv'
<1> DEFINE q == [next |-> next, head |-> [head[c] EXCEPT !["full"] = s]]
           r == AllocFrom(q, [marks EXCEPT ![s] = Objs], nused)
<1>1. Inv(r.q.next, [head EXCEPT ![c] = r.q.head], r.marks, r.nused,
          [owner EXCEPT ![s] = c], held \cup r.obj, joined)
  <2>1. /\ head[c]["partial"] = Nil /\ head[c]["full"] = Nil /\ owner[s] = Nil
        /\ Inv(next, head, marks, nused, owner, held, joined)
    BY DEF SlabInv, AllocGrown, HasSlabs, Fresh
  <2> QED
    BY <2>1, GrowThenAlloc, Zenon
<1>2. /\ next' = r.q.next /\ head' = [head EXCEPT ![c] = r.q.head]
      /\ marks' = r.marks /\ nused' = r.nused /\ held' = held \cup r.obj
      /\ joined' = joined
      /\ owner' = [owner EXCEPT ![s] = c] /\ created' = created /\ status' = status
      /\ c \in created
  BY Zenon DEF AllocGrown
<1> HIDE DEF r
<1>3. Inv(next', head', marks', nused', owner', held', joined')
  BY <1>1, <1>2, Zenon
<1>4. \A x \in Slabs : owner'[x] # Nil => owner'[x] \in created'
  BY <1>2, Zenon DEF SlabInv, Inv, TypeInv
<1> QED
  BY <1>2, <1>3, <1>4 DEF SlabInv

(* The cache of caches gives an object whenever it has a slab, and its     *)
(* lists never join.                                                       *)
LEMMA MetaGives ==
    ASSUME SlabInv, HasSlabs(Meta)
    PROVE  /\ AllocFrom(Lists(Meta), marks, nused).obj # {}
           /\ ~ Joins(Lists(Meta))
<1> DEFINE q == Lists(Meta)
           r == AllocFrom(q, marks, nused)
<1>0. MetaInv(next, head, marks) /\ Meta \in Caches
      /\ marks \in Marks /\ nused \in Counts
      /\ next \in [Slabs -> Pointer] /\ head \in [Caches -> [Kinds -> Pointer]]
  BY SlabAssumption DEF SlabInv, Inv, TypeInv
<1>1. q \in QueueType /\ q.next = next /\ q.head = head[Meta]
  BY <1>0, CacheListsType DEF Lists, CacheLists
<1>2. q.head["partial"] # Nil \/ q.head["full"] # Nil
  BY <1>1 DEF HasSlabs
<1>3. ~ Joins(q)
  BY <1>0, <1>1, <1>2 DEF Joins, MetaInv
<1> HIDE DEF q
<1>4. marks[Source(q)] # {}
  BY <1>0, <1>1, <1>2, Zenon DEF MetaInv, Source
<1>5. Takes(r, Source(q), marks, nused)
  BY <1>0, <1>1, <1>2, AllocTakes, Zenon
<1> HIDE DEF r
<1>6. r.obj # {}
  BY <1>4, <1>5, Zenon DEF Takes
<1> QED
  BY <1>3, <1>6, Zenon DEF r, q

LEMMA DescriptorKeeps ==
    ASSUME SlabInv, NEW g \in Slabs \cup {Nil}, MetaGrown(g), NEW r, r = Descriptor(g)
    PROVE  Inv(r.q.next, [head EXCEPT ![Meta] = r.q.head], r.marks, r.nused,
               Own(g, Meta), held \cup r.obj, joined)
<1>0. Meta \in Caches /\ Nil \notin Slabs /\ Inv(next, head, marks, nused, owner, held, joined)
  BY SlabAssumption DEF SlabInv, Slabs
<1>1. ASSUME g = Nil
      PROVE  Inv(r.q.next, [head EXCEPT ![Meta] = r.q.head], r.marks, r.nused,
                 Own(g, Meta), held \cup r.obj, joined)
  <2>1. HasSlabs(Meta) /\ Own(g, Meta) = owner
    BY <1>0, <1>1 DEF MetaGrown, Own
  <2>2. r = AllocFrom(CacheLists(next, head, Meta), marks, nused)
    BY <1>1 DEF Descriptor, Lists, CacheLists
  <2>3. ~ Joins(CacheLists(next, head, Meta))
    BY <2>1, MetaGives, Zenon DEF Lists, CacheLists
  <2>4. AllocResult(r, next, head, owner, held, joined, Meta)
    BY <1>0, <2>1, <2>2, AllocKeeps, Zenon DEF HasSlabs
  <2>5. Inv(r.q.next, [head EXCEPT ![Meta] = r.q.head], r.marks, r.nused,
            owner, held \cup r.obj, joined \/ Joins(CacheLists(next, head, Meta)))
    BY <2>4 DEF AllocResult
  <2>6. Inv(r.q.next, [head EXCEPT ![Meta] = r.q.head], r.marks, r.nused,
            owner, held \cup r.obj, joined)
    BY <2>3, <2>5, InvUnjoined, Zenon
  <2> QED
    BY <2>1, <2>6, Zenon
<1>2. ASSUME g # Nil
      PROVE  Inv(r.q.next, [head EXCEPT ![Meta] = r.q.head], r.marks, r.nused,
                 Own(g, Meta), held \cup r.obj, joined)
  <2>1. /\ ~ HasSlabs(Meta) /\ g \in Slabs /\ owner[g] = Nil
        /\ Own(g, Meta) = [owner EXCEPT ![g] = Meta]
    BY <1>2 DEF MetaGrown, Fresh, Own
  <2>2. [Lists(Meta) EXCEPT !.head["full"] = g]
            = [next |-> next, head |-> [head[Meta] EXCEPT !["full"] = g]]
    BY DEF Lists
  <2>3. r = AllocFrom([next |-> next, head |-> [head[Meta] EXCEPT !["full"] = g]],
                      [marks EXCEPT ![g] = Objs], nused)
    BY <1>2, <2>2 DEF Descriptor
  <2>4. head[Meta]["partial"] = Nil /\ head[Meta]["full"] = Nil
    BY <2>1 DEF HasSlabs
  <2>5. Inv(r.q.next, [head EXCEPT ![Meta] = r.q.head], r.marks, r.nused,
            [owner EXCEPT ![g] = Meta], held \cup r.obj, joined)
    <3>1. g \in Slabs /\ owner[g] = Nil
      BY <2>1
    <3> QED
      BY <1>0, <2>3, <2>4, <3>1, GrowThenAlloc, Zenon
  <2> QED
    BY <2>1, <2>5
<1> QED
  BY <1>1, <1>2

LEMMA CreateCacheInv ==
    ASSUME SlabInv, NEW c \in Caches, NEW g \in Slabs \cup {Nil}, NEW s \in Slabs,
           CreateCache(c, g, s)
    PROVE  SlabInv'
<1> DEFINE r == Descriptor(g)
           h == [head EXCEPT ![Meta] = r.q.head]
           o == Own(g, Meta)
           e == held \cup r.obj
<1>0. /\ next' = r.q.next
      /\ head' = [head EXCEPT ![Meta] = r.q.head, ![c] = [NoLists EXCEPT !["full"] = s]]
      /\ marks' = [r.marks EXCEPT ![s] = Objs] /\ nused' = r.nused
      /\ owner' = [o EXCEPT ![s] = c] /\ held' = e
      /\ created' = created \cup {c} /\ status' = status /\ joined' = joined
      /\ c \notin created /\ MetaGrown(g) /\ owner[s] = Nil /\ s # g
  BY Zenon DEF CreateCache
<1>1. Inv(r.q.next, h, r.marks, r.nused, o, e, joined)
  BY <1>0, DescriptorKeeps, Zenon
<1> HIDE DEF r
<1>2. /\ Meta \in Caches /\ Meta \in created /\ c # Meta
      /\ Nil \notin Slabs /\ Nil \notin Caches
      /\ owner \in [Slabs -> Caches \cup {Nil}] /\ head \in [Caches -> [Kinds -> Pointer]]
  BY <1>0, SlabAssumption, Zenon DEF SlabInv, Inv, TypeInv, Slabs
<1>3. o[s] = Nil /\ \A x \in Slabs : o[x] # Nil => o[x] \in created
  <2>1. CASE g = Nil
    BY <1>0, <2>1 DEF Own, SlabInv
  <2>2. CASE g # Nil
    BY <1>0, <1>2, <2>2, Zenon DEF Own, SlabInv
  <2> QED
    BY <2>1, <2>2
<1>4. head[c] = NoLists
  <2>1. Owned(owner, c) = {}
    BY <1>0, <1>2, Zenon DEF Owned, SlabInv
  <2>2. Within(CacheLists(next, head, c), Owned(owner, c))
    BY Zenon DEF SlabInv, Inv, OwnInv
  <2>3. \A k \in Kinds : head[c][k] = Nil
    BY <2>1, <2>2, Zenon DEF Within, CacheLists
  <2>4. head[c] \in [Kinds -> Pointer]
    BY <1>2
  <2> QED
    BY <2>3, <2>4 DEF NoLists
<1>5. h[c] = NoLists /\ h[c]["full"] = Nil
  BY <1>2, <1>4 DEF NoLists, Kinds
<1>6. head' = [h EXCEPT ![c] = [h[c] EXCEPT !["full"] = s]]
  BY <1>0, <1>5, Zenon
<1> HIDE DEF h, o, e
<1>7. Inv(r.q.next, [h EXCEPT ![c] = [h[c] EXCEPT !["full"] = s]], [r.marks EXCEPT ![s] = Objs],
          r.nused, [o EXCEPT ![s] = c], e, joined)
  BY <1>1, <1>2, <1>3, <1>5, GrowKeeps, Zenon
<1>8. Inv(next', head', marks', nused', owner', held', joined')
  BY <1>0, <1>6, <1>7, Zenon
<1>9. \A x \in Slabs : owner'[x] # Nil => owner'[x] \in created'
  <2>1. o \in [Slabs -> Caches \cup {Nil}]
    BY <1>1, Zenon DEF Inv, TypeInv
  <2> QED
    BY <1>0, <1>3, <2>1, Zenon
<1> QED
  BY <1>0, <1>8, <1>9 DEF SlabInv

LEMMA FreedInv ==
    ASSUME SlabInv, NEW c \in Caches \ {Meta}, NEW s \in Slabs, NEW i \in Objs,
           <<s, i>> \in held, owner[s] = c,
           NEW q, Returns(CacheLists(next, head, c), q, s, Owned(owner, c)), Freed(c, s, i, q)
    PROVE  SlabInv'
<1>1. Inv(q.next, [head EXCEPT ![c] = q.head], [marks EXCEPT ![s] = @ \cup {i}],
          [nused EXCEPT ![s] = @ - 1], owner, held \ {<<s, i>>}, joined)
  BY FreeKeeps DEF SlabInv
<1>2. Inv(next', head', marks', nused', owner', held', joined')
  BY <1>1, Zenon DEF Freed
<1> QED
  BY <1>2 DEF SlabInv, Freed

LEMMA SlabFreeInv ==
    ASSUME SlabInv, NEW c \in Caches, NEW s \in Slabs, NEW i \in Objs, SlabFree(c, s, i)
    PROVE  SlabInv'
<1> DEFINE p == CacheLists(next, head, c)
<1>0. /\ next \in [Slabs -> Pointer] /\ head \in [Caches -> [Kinds -> Pointer]] /\ nused \in Counts
      /\ Within(p, Owned(owner, c))
      /\ <<s, i>> \in held /\ c # Meta /\ "partial" \in Kinds /\ "empty" \in Kinds
  BY Zenon DEF SlabInv, Inv, TypeInv, OwnInv, SlabFree, Freeable, Kinds
<1>1. p \in QueueType /\ p = Lists(c) /\ p.next = next /\ p.head = head[c]
  BY <1>0, CacheListsType DEF Lists, CacheLists
<1> HIDE DEF p
<1>2. \A k \in Kinds : s \in On(p, k) => owner[s] = c
  <2>1. \A k \in Kinds : On(p, k) \subseteq Owned(owner, c)
    BY <1>0, <1>1, OnWithin, Zenon
  <2> QED
    BY <2>1 DEF Owned
<1>3. CASE FreePartial(c, s, i)
  <2>1. s \in On(p, "partial") /\ Freed(c, s, i, Refill(p, s))
    BY <1>1, <1>3, Zenon DEF FreePartial, InPartial, On
  <2>2. Returns(p, Refill(p, s), s, Owned(owner, c))
    BY <1>0, <1>1, <2>1, ReturnPartial, Zenon
  <2> QED
    BY <1>0, <1>2, <2>1, <2>2, FreedInv DEF p
<1>4. CASE FreeEmpty(c, s, i)
  <2> DEFINE q == Refill(Push(Unlink(p, "empty", s), "partial", s), s)
  <2>1. s \in On(p, "empty") /\ Freed(c, s, i, q)
    BY <1>1, <1>4, Zenon DEF FreeEmpty, InEmpty, On
  <2>2. Returns(p, q, s, Owned(owner, c))
    BY <1>0, <1>1, <2>1, ReturnEmpty, Zenon
  <2> HIDE DEF q
  <2> QED
    BY <1>0, <1>2, <2>1, <2>2, FreedInv DEF p
<1>5. CASE FreeHangs(c, s)
  <2>1. joined
    <3> SUFFICES ASSUME ~ joined PROVE FALSE
      OBVIOUS
    <3>1. Kept(p, nused)
      BY DEF SlabInv, Inv, KeptInv, p
    <3>2. \A k \in Kinds : Ends(next, head[c][k]) /\ head[c][k] \in Pointer
      <4>1. \A k \in Kinds : Ends(p.next, p.head[k])
        BY <3>1 DEF Kept, Apart
      <4>2. \A k \in Kinds : head[c][k] \in Pointer
        BY <1>0
      <4> QED
        BY <1>1, <4>1, <4>2
    <3>3. \A k \in Kinds : ~ Endless(next, head[c][k])
      BY <1>0, <3>2, EndlessIff
    <3> QED
      BY <1>0, <1>5, <3>3 DEF FreeHangs
  <2> QED
    BY <1>5, <2>1, Zenon DEF FreeHangs, SlabInv
<1> QED
  BY <1>3, <1>4, <1>5 DEF SlabFree

LEMMA NextInv == SlabInv /\ [Next]_vars => SlabInv'
<1> SUFFICES ASSUME SlabInv, [Next]_vars
             PROVE  SlabInv'
  OBVIOUS
<1>0. Kmallocs \subseteq Caches
  BY SlabAssumption
<1>1. ASSUME UNCHANGED vars PROVE SlabInv'
  BY <1>1 DEF vars, SlabInv
<1>2. ASSUME NEW c \in Caches, AllocNull(c) PROVE SlabInv'
  BY <1>1, <1>2 DEF AllocNull
<1>3. ASSUME NEW c \in Caches, NEW g \in Slabs \cup {Nil}, CreateFaults(c, g) PROVE SlabInv'
  BY <1>3, Zenon DEF CreateFaults, SlabInv
<1>4. ASSUME NEW s \in Slabs, NEW i \in Objs, SlabFree(owner[s], s, i) PROVE SlabInv'
  <2>1. owner[s] \in Caches
    <3>1. <<s, i>> \in held
      BY <1>4 DEF SlabFree, Freeable
    <3>2. owner[s] # Nil /\ owner \in [Slabs -> Caches \cup {Nil}]
      BY <3>1 DEF SlabInv, Inv, OwnInv, TypeInv
    <3> QED
      BY <3>2
  <2> QED
    BY <1>4, <2>1, SlabFreeInv
<1>5. ASSUME NEW s \in Slabs, NEW i \in Objs, Kfree(s, i) PROVE SlabInv'
  BY <1>0, <1>5, SlabFreeInv DEF Kfree
<1>6. ASSUME NEW sz \in Caches, Kmalloc(sz) PROVE SlabInv'
  BY <1>0, <1>2, <1>6, AllocListedInv, AllocGrownInv DEF Kmalloc
<1> QED
  BY <1>1, <1>2, <1>3, <1>4, <1>5, <1>6, AllocListedInv, AllocGrownInv, CreateCacheInv DEF Next

LEMMA SlabInvariant == Spec => []SlabInv
<1> QED
  BY InitInv, NextInv, PTL DEF Spec

-----------------------------------------------------------------------------
(* The marks, the counts and the objects in use agree, so no object is     *)
(* handed out twice (MarksAgree), for any number of caches, slabs and      *)
(* objects of a slab.                                                      *)
THEOREM MarksAlwaysAgree == Spec => []MarksAgree
<1>1. SlabInv => MarksAgree
  BY Zenon DEF SlabInv, Inv, MarkInv, MarksAgree
<1> QED
  BY <1>1, SlabInvariant, PTL

(* Until a slab with a successor is taken from a full list, the lists of   *)
(* every cache end, are apart and hold slabs of their kind, and no search  *)
(* goes on for ever; the cache of caches can always give (ListsSound).     *)
THEOREM ListsAlwaysSound == Spec => []ListsSound
<1>1. SlabInv => ListsSound
  <2> SUFFICES ASSUME SlabInv
               PROVE  ListsSound
    OBVIOUS
  <2>1. HasSlabs(Meta) => AllocFrom(Lists(Meta), marks, nused).obj # {}
    BY MetaGives
  <2>2. ASSUME ~ joined, NEW c \in Caches, NEW k \in Kinds
        PROVE  /\ ~ Endless(next, head[c][k])
               /\ \A s \in ListOf(c, k) :
                     Fits(s, k) /\ \A j \in Kinds \ {k} : s \notin ListOf(c, j)
    <3>1. /\ next \in [Slabs -> Pointer] /\ head[c][k] \in Pointer
      BY DEF SlabInv, Inv, TypeInv
    <3>2. Kept(CacheLists(next, head, c), nused)
      BY <2>2 DEF SlabInv, Inv, KeptInv
    <3>3. \A j \in Kinds : On(CacheLists(next, head, c), j) = ListOf(c, j)
      BY DEF On, CacheLists, ListOf
    <3>4. /\ Ends(next, head[c][k])
          /\ \A j \in Kinds \ {k} : ListOf(c, k) \cap ListOf(c, j) = {}
          /\ \A s \in ListOf(c, k) : Fit(nused[s], k)
      BY <3>2, <3>3 DEF Kept, Apart, CacheLists
    <3>5. \A s : Fit(nused[s], k) => Fits(s, k)
      BY Zenon DEF Fit, Fits, Kinds
    <3>6. ~ Endless(next, head[c][k])
      BY <3>1, <3>4, EndlessIff
    <3> QED
      BY <3>4, <3>5, <3>6
  <2> QED
    BY <2>1, <2>2, Zenon DEF ListsSound, SlabInv
<1> QED
  BY <1>1, SlabInvariant, PTL

(* The slab of an object in use is always found by memory_slab_free, on    *)
(* the partial or the empty list of its own cache and on no list of        *)
(* another, also after lists have joined (FreeFindsSlab).                  *)
THEOREM FreeAlwaysFindsSlab == Spec => []FreeFindsSlab
<1>1. SlabInv => FreeFindsSlab
  <2> SUFFICES ASSUME SlabInv, NEW o \in held
               PROVE  /\ InPartial(owner[o[1]], o[1]) \/ InEmpty(owner[o[1]], o[1])
                      /\ \A c \in Caches \ {owner[o[1]]}, k \in Kinds : o[1] \notin ListOf(c, k)
    BY DEF FreeFindsSlab
  <2>0. PICK s \in Slabs, i \in Objs : o = <<s, i>>
    BY DEF SlabInv, Inv, TypeInv
  <2>1. /\ owner[s] # Nil /\ i \notin marks[s] /\ nused[s] = NObjs - Cardinality(marks[s])
        /\ marks[s] \in SUBSET Objs
    BY <2>0 DEF SlabInv, Inv, OwnInv, MarkInv, TypeInv, Marks
  <2>2. nused[s] # 0
    <3>1. marks[s] # Objs
      BY <2>1
    <3> QED
      BY <2>1, <3>1, SomeUsed, Zenon
  <2>3. Found(CacheLists(next, head, owner[s]), s)
    BY <2>1, <2>2, Zenon DEF SlabInv, Inv, FindInv
  <2>4. InPartial(owner[s], s) \/ InEmpty(owner[s], s)
    BY <2>3, Zenon DEF Found, On, CacheLists, InPartial, InEmpty
  <2>5. ASSUME NEW c \in Caches \ {owner[s]}, NEW k \in Kinds
        PROVE  s \notin ListOf(c, k)
    <3>1. Within(CacheLists(next, head, c), Owned(owner, c))
      BY Zenon DEF SlabInv, Inv, OwnInv
    <3>2. CacheLists(next, head, c) \in QueueType
      BY CacheListsType, Zenon DEF SlabInv, Inv, TypeInv
    <3>3. On(CacheLists(next, head, c), k) \subseteq Owned(owner, c)
      BY <3>1, <3>2, OnWithin
    <3> QED
      BY <3>3 DEF On, CacheLists, ListOf, Owned
  <2> QED
    BY <2>0, <2>4, <2>5
<1> QED
  BY <1>1, SlabInvariant, PTL
=============================================================================
