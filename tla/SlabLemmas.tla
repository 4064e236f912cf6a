---------------------------- MODULE SlabLemmas -----------------------------
(***************************************************************************)
(* Lemmas about the lists of slabs of module Slab, of any length.          *)
(*                                                                         *)
(* The lists are pointers, so the first part shows what a walk along them  *)
(* reaches: the smallest set that holds the head and is closed under next. *)
(* The rest reasons with that and never counts steps again: taking a slab  *)
(* from a list and putting it on another.                                  *)
(***************************************************************************)
EXTENDS Slab, FiniteSetTheorems, TLAPS

(* Induction over the natural numbers, as a fact about sets: a set of      *)
(* numbers that is not empty has a least element.                          *)
LEMMA Least ==
    ASSUME NEW T, T \subseteq Nat, T # {}
    PROVE  \E x \in T : \A y \in T : x <= y
<1> DEFINE R == OpToRel(<, Nat)
<1>1. \E x \in T : \A y \in T : ~ (<<y, x>> \in R)
  <2> HIDE DEF R
  <2>1. IsWellFoundedOn(R, Nat)
    BY NatLessThanWellFounded, Zenon DEF R
  <2> QED
    BY <2>1, WFMin, Zenon
<1>2. PICK x \in T : \A y \in T : ~ (<<y, x>> \in R)
  BY <1>1
<1>3. ASSUME NEW y \in T
      PROVE  x <= y
  <2>1. ~ (<<y, x>> \in R)
    BY <1>2
  <2>2. x \in Nat /\ y \in Nat
    OBVIOUS
  <2>3. ~ (y < x)
    BY <2>1, <2>2 DEF OpToRel
  <2> QED
    BY <2>2, <2>3
<1> QED
  BY <1>3

LEMMA NatInSet ==
    ASSUME NEW T, 0 \in T, \A n \in Nat : n \in T => n + 1 \in T
    PROVE  Nat \subseteq T
<1> SUFFICES ASSUME Nat \ T # {}
             PROVE  FALSE
  OBVIOUS
<1>1. PICK x \in Nat \ T : \A y \in Nat \ T : x <= y
  <2>1. Nat \ T \subseteq Nat
    OBVIOUS
  <2> QED
    BY <2>1, Least
<1>2. x # 0 /\ x - 1 \in Nat /\ ~ (x <= x - 1)
  OBVIOUS
<1>3. x - 1 \in T
  BY <1>1, <1>2
<1>4. (x - 1) + 1 \in T
  BY <1>3, <1>2
<1> QED
  BY <1>4, <1>2

-----------------------------------------------------------------------------
(* Walks.                                                                  *)

Pointer == Slabs \cup {Nil}

(* The recursive function Nth exists: it satisfies its own definition.     *)
LEMMA NthDef ==
    ASSUME NEW f, NEW h
    PROVE  Nth(f, h) = [n \in 0 .. NSlabs |->
              IF n = 0 THEN h ELSE IF Nth(f, h)[n - 1] = Nil THEN Nil ELSE f[Nth(f, h)[n - 1]]]
<1> DEFINE Ok(k, g) == g = [n \in 0 .. k |->
                              IF n = 0 THEN h ELSE IF g[n - 1] = Nil THEN Nil ELSE f[g[n - 1]]]
           T == {k \in Nat : \E g : Ok(k, g)}
<1>1. 0 \in T
  <2>1. Ok(0, [n \in 0 .. 0 |-> h])
    OBVIOUS
  <2>2. \E g : Ok(0, g)
    BY <2>1
  <2> QED
    BY <2>2
<1>2. ASSUME NEW k \in Nat, k \in T
      PROVE  k + 1 \in T
  <2>1. PICK g : Ok(k, g)
    BY <1>2
  <2> DEFINE e == [n \in 0 .. k + 1 |->
                     IF n <= k THEN g[n] ELSE IF g[n - 1] = Nil THEN Nil ELSE f[g[n - 1]]]
  <2>2. Ok(k + 1, e)
    BY <2>1
  <2>3. \E x : Ok(k + 1, x)
    <3> HIDE DEF e, Ok
    <3> QED
      BY <2>2
  <2> HIDE DEF Ok
  <2> QED
    BY <2>3
<1>3. NSlabs \in T
  <2> HIDE DEF T
  <2> QED
    BY <1>1, <1>2, NatInSet, SlabAssumption
<1>4. \E g : Ok(NSlabs, g)
  BY <1>3
<1> QED
  BY <1>4 DEF Nth

LEMMA NthStep ==
    ASSUME NEW f, NEW h
    PROVE  /\ Nth(f, h)[0] = h
           /\ \A n \in 0 .. NSlabs - 1 :
                Nth(f, h)[n + 1] = IF Nth(f, h)[n] = Nil THEN Nil ELSE f[Nth(f, h)[n]]
<1> DEFINE a == Nth(f, h)
<1>1. a = [n \in 0 .. NSlabs |->
              IF n = 0 THEN h ELSE IF a[n - 1] = Nil THEN Nil ELSE f[a[n - 1]]]
  BY NthDef
<1> HIDE DEF a
<1>2. a[0] = h
  BY <1>1, SlabAssumption
<1>3. ASSUME NEW n \in 0 .. NSlabs - 1
      PROVE  a[n + 1] = IF a[n] = Nil THEN Nil ELSE f[a[n]]
  <2>1. n + 1 \in 0 .. NSlabs /\ n + 1 # 0 /\ (n + 1) - 1 = n
    BY SlabAssumption
  <2> QED
    BY <1>1, <2>1
<1> QED
  BY <1>2, <1>3 DEF a

LEMMA NthType ==
    ASSUME NEW f \in [Slabs -> Pointer], NEW h \in Pointer
    PROVE  \A n \in 0 .. NSlabs : Nth(f, h)[n] \in Pointer
<1> DEFINE a == Nth(f, h)
           T == {n \in Nat : n <= NSlabs => a[n] \in Pointer}
<1>1. 0 \in T
  BY NthStep
<1>2. ASSUME NEW n \in Nat, n \in T
      PROVE  n + 1 \in T
  <2> SUFFICES ASSUME n + 1 <= NSlabs
               PROVE  a[n + 1] \in Pointer
    OBVIOUS
  <2>1. n \in 0 .. NSlabs - 1 /\ a[n] \in Pointer
    BY <1>2, SlabAssumption
  <2>2. a[n + 1] = IF a[n] = Nil THEN Nil ELSE f[a[n]]
    BY <2>1, NthStep
  <2> QED
    BY <2>1, <2>2 DEF Pointer
<1>3. Nat \subseteq T
  <2> HIDE DEF T
  <2> QED
    BY <1>1, <1>2, NatInSet
<1> QED
  BY <1>3, SlabAssumption

(* The walk from the i-th slab is the rest of the walk.                    *)
LEMMA NthShift ==
    ASSUME NEW f, NEW h, NEW i \in 0 .. NSlabs
    PROVE  \A k \in 0 .. NSlabs - i : Nth(f, Nth(f, h)[i])[k] = Nth(f, h)[i + k]
<1> DEFINE a == Nth(f, h)
           b == Nth(f, a[i])
           T == {k \in Nat : k <= NSlabs - i => b[k] = a[i + k]}
<1>1. 0 \in T
  <2>1. b[0] = a[i]
    BY NthStep
  <2> QED
    BY <2>1
<1>2. ASSUME NEW k \in Nat, k \in T
      PROVE  k + 1 \in T
  <2> SUFFICES ASSUME k + 1 <= NSlabs - i
               PROVE  b[k + 1] = a[i + (k + 1)]
    OBVIOUS
  <2>1. k \in 0 .. NSlabs - 1 /\ i + k \in 0 .. NSlabs - 1 /\ i + (k + 1) = (i + k) + 1
    BY SlabAssumption
  <2>2. b[k] = a[i + k]
    BY <1>2, SlabAssumption
  <2>3. b[k + 1] = IF b[k] = Nil THEN Nil ELSE f[b[k]]
    BY <2>1, NthStep
  <2>4. a[(i + k) + 1] = IF a[i + k] = Nil THEN Nil ELSE f[a[i + k]]
    BY <2>1, NthStep
  <2> HIDE DEF a, b
  <2> QED
    BY <2>1, <2>2, <2>3, <2>4
<1>3. Nat \subseteq T
  <2> HIDE DEF T
  <2> QED
    BY <1>1, <1>2, NatInSet
<1> QED
  BY <1>3, SlabAssumption

LEMMA ReachIsWalk ==
    ASSUME NEW f, NEW h, NEW s
    PROVE  s \in Reach(f, h) <=> s \in Slabs /\ \E n \in 0 .. NSlabs : Nth(f, h)[n] = s
BY DEF Reach

(* Whatever holds of the head and passes along next holds of all slabs     *)
(* that are reached.                                                       *)
LEMMA ReachLeast ==
    ASSUME NEW f \in [Slabs -> Pointer], NEW h \in Pointer, NEW X,
           h # Nil => h \in X,
           \A x \in X \cap Slabs : f[x] # Nil => f[x] \in X
    PROVE  Reach(f, h) \subseteq X
<1> DEFINE a == Nth(f, h)
           T == {n \in Nat : n <= NSlabs /\ a[n] # Nil => a[n] \in X}
<1>1. 0 \in T
  BY NthStep
<1>2. ASSUME NEW n \in Nat, n \in T
      PROVE  n + 1 \in T
  <2> SUFFICES ASSUME n + 1 <= NSlabs, a[n + 1] # Nil
               PROVE  a[n + 1] \in X
    OBVIOUS
  <2>1. n \in 0 .. NSlabs - 1 /\ n \in 0 .. NSlabs
    BY SlabAssumption
  <2>2. a[n + 1] = IF a[n] = Nil THEN Nil ELSE f[a[n]]
    BY <2>1, NthStep
  <2>3. a[n] \in Pointer
    BY <2>1, NthType
  <2>4. a[n] # Nil
    BY <2>2
  <2>5. a[n] \in X \cap Slabs
    BY <1>2, <2>1, <2>3, <2>4 DEF Pointer
  <2> QED
    BY <2>2, <2>4, <2>5
<1>3. Nat \subseteq T
  <2> HIDE DEF T
  <2> QED
    BY <1>1, <1>2, NatInSet
<1>4. ASSUME NEW s \in Reach(f, h)
      PROVE  s \in X
  <2>1. PICK n \in 0 .. NSlabs : a[n] = s
    BY ReachIsWalk
  <2>2. s \in Slabs /\ s # Nil
    BY ReachIsWalk, SlabAssumption DEF Slabs
  <2> QED
    BY <1>3, <2>1, <2>2, SlabAssumption
<1> QED
  BY <1>4

(* NULL ends a walk.                                                       *)
LEMMA NilStays ==
    ASSUME NEW f, NEW h, NEW i \in 0 .. NSlabs, Nth(f, h)[i] = Nil
    PROVE  Nth(f, h)[NSlabs] = Nil
<1> DEFINE a == Nth(f, h)
           T == {k \in Nat : k <= NSlabs - i => a[i + k] = Nil}
<1>1. 0 \in T
  OBVIOUS
<1>2. ASSUME NEW k \in Nat, k \in T
      PROVE  k + 1 \in T
  <2> SUFFICES ASSUME k + 1 <= NSlabs - i
               PROVE  a[i + (k + 1)] = Nil
    OBVIOUS
  <2>1. i + k \in 0 .. NSlabs - 1 /\ i + (k + 1) = (i + k) + 1 /\ a[i + k] = Nil
    BY <1>2, SlabAssumption
  <2>2. a[(i + k) + 1] = IF a[i + k] = Nil THEN Nil ELSE f[a[i + k]]
    BY <2>1, NthStep
  <2> HIDE DEF a
  <2> QED
    BY <2>1, <2>2
<1>3. Nat \subseteq T
  <2> HIDE DEF T
  <2> QED
    BY <1>1, <1>2, NatInSet
<1>4. NSlabs - i \in T /\ i + (NSlabs - i) = NSlabs
  BY <1>3, SlabAssumption
<1> HIDE DEF a
<1>5. a[NSlabs] = Nil
  BY <1>4, SlabAssumption
<1> QED
  BY <1>5 DEF a

(* There are more steps in a walk than slabs, so that each slab is reached *)
(* before the last step.                                                   *)
LEMMA ReachSoon ==
    ASSUME NEW f \in [Slabs -> Pointer], NEW h \in Pointer, NEW s \in Reach(f, h)
    PROVE  \E n \in 0 .. NSlabs - 1 : Nth(f, h)[n] = s
<1> DEFINE a == Nth(f, h)
           N == {n \in 0 .. NSlabs : a[n] = s}
<1>1. PICK n \in N : \A m \in N : n <= m
  <2>1. N # {} /\ N \subseteq Nat
    BY ReachIsWalk, SlabAssumption
  <2> HIDE DEF N
  <2> QED
    BY <2>1, Least
<1>2. n \in 0 .. NSlabs /\ a[n] = s /\ s \in Slabs /\ s # Nil
  BY ReachIsWalk, SlabAssumption DEF Slabs
<1>3. SUFFICES ASSUME n = NSlabs
               PROVE  FALSE
  BY <1>2, SlabAssumption
<1>4. ASSUME NEW i \in 0 .. NSlabs, a[i] = Nil
      PROVE  FALSE
  <2>1. a[NSlabs] = Nil
    BY <1>4, NilStays
  <2> QED
    BY <2>1, <1>2, <1>3
<1>5. ASSUME NEW i \in 0 .. NSlabs, NEW j \in 0 .. NSlabs, i < j, a[i] = a[j]
      PROVE  FALSE
  <2> DEFINE k == NSlabs - j
  <2>1. k \in 0 .. NSlabs - j /\ k \in 0 .. NSlabs - i /\ j + k = NSlabs
        /\ i + k \in 0 .. NSlabs /\ i + k < NSlabs
    BY <1>5, SlabAssumption
  <2>2. Nth(f, a[j])[k] = a[j + k]
    BY <2>1, NthShift
  <2>3. Nth(f, a[i])[k] = a[i + k]
    BY <2>1, NthShift
  <2> HIDE DEF a, k
  <2>4. a[i + k] = s
    BY <2>1, <2>2, <2>3, <1>5, <1>2, <1>3
  <2> QED
    BY <2>1, <2>4, <1>1, <1>3, SlabAssumption
<1> DEFINE g == [i \in 0 .. NSlabs |-> a[i]]
<1>6. g \in [0 .. NSlabs -> Slabs]
  <2>1. \A i \in 0 .. NSlabs : a[i] \in Slabs
    BY <1>4, NthType DEF Pointer
  <2> QED
    BY <2>1
<1>7. /\ IsFiniteSet(0 .. NSlabs) /\ IsFiniteSet(Slabs)
      /\ Cardinality(Slabs) < Cardinality(0 .. NSlabs)
  <2>1. /\ IsFiniteSet(0 .. NSlabs)
        /\ Cardinality(0 .. NSlabs) = IF 0 > NSlabs THEN 0 ELSE NSlabs - 0 + 1
    BY FS_Interval, SlabAssumption
  <2>2. /\ IsFiniteSet(1 .. NSlabs)
        /\ Cardinality(1 .. NSlabs) = IF 1 > NSlabs THEN 0 ELSE NSlabs - 1 + 1
    BY FS_Interval, SlabAssumption
  <2> QED
    BY <2>1, <2>2, SlabAssumption DEF Slabs
<1>8. PICK i \in 0 .. NSlabs, j \in 0 .. NSlabs : i # j /\ g[i] = g[j]
  <2> HIDE DEF g
  <2> QED
    BY <1>6, <1>7, FS_PigeonHole
<1>9. a[i] = a[j] /\ (i < j \/ j < i)
  <2>1. i < j \/ j < i
    BY <1>8, SlabAssumption
  <2> QED
    BY <1>8, <2>1
<1> HIDE DEF a
<1> QED
  BY <1>5, <1>9

LEMMA ReachType ==
    ASSUME NEW f, NEW h
    PROVE  /\ Reach(f, h) \subseteq Slabs
           /\ Nil \notin Reach(f, h) /\ Nil \notin Slabs
BY SlabAssumption DEF Reach, Slabs

LEMMA ReachHead ==
    ASSUME NEW f, NEW h \in Slabs
    PROVE  h \in Reach(f, h)
<1>1. Nth(f, h)[0] = h
  BY NthStep
<1>2. 0 \in 0 .. NSlabs
  BY SlabAssumption
<1> QED
  BY <1>1, <1>2, ReachIsWalk

LEMMA ReachNil ==
    ASSUME NEW f \in [Slabs -> Pointer]
    PROVE  Reach(f, Nil) = {}
<1> DEFINE X == {}
<1>0. Nil \in Pointer /\ \A x \in X \cap Slabs : f[x] # Nil => f[x] \in X
  BY DEF Pointer
<1> HIDE DEF X
<1>1. Reach(f, Nil) \subseteq X
  BY <1>0, ReachLeast
<1> QED
  BY <1>1 DEF X

LEMMA ReachStep ==
    ASSUME NEW f \in [Slabs -> Pointer], NEW h \in Pointer,
           NEW s \in Reach(f, h), f[s] # Nil
    PROVE  f[s] \in Reach(f, h)
<1>1. PICK n \in 0 .. NSlabs - 1 : Nth(f, h)[n] = s
  BY ReachSoon
<1>2. s \in Slabs /\ s # Nil
  BY ReachType
<1>3. Nth(f, h)[n + 1] = IF Nth(f, h)[n] = Nil THEN Nil ELSE f[Nth(f, h)[n]]
  BY NthStep
<1>4. Nth(f, h)[n + 1] = f[s]
  BY <1>1, <1>2, <1>3
<1>5. n + 1 \in 0 .. NSlabs /\ f[s] \in Slabs
  BY <1>2, SlabAssumption DEF Pointer
<1> QED
  BY <1>4, <1>5, ReachIsWalk

(* From the slabs of a list nothing else is reached.                       *)
LEMMA ReachFrom ==
    ASSUME NEW f \in [Slabs -> Pointer], NEW h \in Pointer, NEW s \in Reach(f, h)
    PROVE  Reach(f, s) \subseteq Reach(f, h)
<1>1. s \in Pointer
  BY ReachType DEF Pointer
<1>2. \A x \in Reach(f, h) \cap Slabs : f[x] # Nil => f[x] \in Reach(f, h)
  BY ReachStep
<1> DEFINE X == Reach(f, h)
<1> HIDE DEF X
<1>3. Reach(f, s) \subseteq X
  BY <1>1, <1>2, ReachLeast DEF X
<1> QED
  BY <1>3 DEF X

LEMMA ReachNext ==
    ASSUME NEW f \in [Slabs -> Pointer], NEW s \in Slabs
    PROVE  Reach(f, s) = {s} \cup Reach(f, f[s])
<1>0. s \in Pointer /\ f[s] \in Pointer
  BY DEF Pointer
<1>1. Reach(f, s) \subseteq {s} \cup Reach(f, f[s])
  <2> DEFINE X == {s} \cup Reach(f, f[s])
  <2>1. s \in X
    OBVIOUS
  <2>2. ASSUME NEW x \in X \cap Slabs, f[x] # Nil
        PROVE  f[x] \in X
    <3>1. CASE x = s
      <4>1. f[s] \in Slabs
        BY <1>0, <2>2, <3>1 DEF Pointer
      <4> QED
        BY <3>1, <4>1, ReachHead
    <3>2. CASE x \in Reach(f, f[s])
      BY <1>0, <2>2, <3>2, ReachStep
    <3> QED
      BY <3>1, <3>2
  <2> HIDE DEF X
  <2>3. Reach(f, s) \subseteq X
    BY <1>0, <2>1, <2>2, ReachLeast
  <2> QED
    BY <2>3 DEF X
<1>2. s \in Reach(f, s)
  BY ReachHead
<1>3. Reach(f, f[s]) \subseteq Reach(f, s)
  <2>1. CASE f[s] = Nil
    BY <2>1, ReachNil
  <2>2. CASE f[s] # Nil
    <3>1. f[s] \in Reach(f, s)
      BY <1>0, <1>2, <2>2, ReachStep
    <3> QED
      BY <1>0, <3>1, ReachFrom
  <2> QED
    BY <2>1, <2>2
<1> QED
  BY <1>1, <1>2, <1>3

(* Pointers of slabs that are not on a list do not matter to it.           *)
LEMMA ReachFrame ==
    ASSUME NEW f \in [Slabs -> Pointer], NEW g \in [Slabs -> Pointer], NEW h \in Pointer,
           \A x \in Reach(f, h) : g[x] = f[x]
    PROVE  Reach(g, h) = Reach(f, h)
<1>1. Reach(g, h) \subseteq Reach(f, h)
  <2> DEFINE X == Reach(f, h)
  <2>1. h # Nil => h \in X
    BY ReachHead DEF Pointer
  <2>2. \A x \in X \cap Slabs : g[x] # Nil => g[x] \in X
    BY ReachStep
  <2> HIDE DEF X
  <2>3. Reach(g, h) \subseteq X
    BY <2>1, <2>2, ReachLeast
  <2> QED
    BY <2>3 DEF X
<1>2. Reach(f, h) \subseteq Reach(g, h)
  <2> DEFINE X == Reach(g, h)
  <2>1. h # Nil => h \in X
    BY ReachHead DEF Pointer
  <2>2. \A x \in X \cap Slabs : f[x] # Nil => f[x] \in X
    BY <1>1, ReachStep
  <2> HIDE DEF X
  <2>3. Reach(f, h) \subseteq X
    BY <2>1, <2>2, ReachLeast
  <2> QED
    BY <2>3 DEF X
<1> QED
  BY <1>1, <1>2

(* A list ends if some slab of it has no successor.                        *)
Ends(f, h) == h = Nil \/ \E x \in Reach(f, h) : f[x] = Nil

LEMMA EndlessIff ==
    ASSUME NEW f \in [Slabs -> Pointer], NEW h \in Pointer
    PROVE  Endless(f, h) <=> ~ Ends(f, h)
<1> DEFINE a == Nth(f, h)
<1>1. ASSUME h = Nil
      PROVE  ~ Endless(f, h)
  <2>1. a[0] = Nil /\ 0 \in 0 .. NSlabs
    BY <1>1, NthStep, SlabAssumption
  <2> QED
    BY <2>1, NilStays DEF Endless
<1>2. ASSUME NEW x \in Reach(f, h), f[x] = Nil
      PROVE  ~ Endless(f, h)
  <2>1. PICK n \in 0 .. NSlabs - 1 : a[n] = x
    BY ReachSoon
  <2>2. a[n + 1] = IF a[n] = Nil THEN Nil ELSE f[a[n]]
    BY NthStep
  <2>3. a[n + 1] = Nil /\ n + 1 \in 0 .. NSlabs
    BY <1>2, <2>1, <2>2, SlabAssumption
  <2> QED
    BY <2>3, NilStays DEF Endless
<1>3. ASSUME ~ Endless(f, h), h # Nil
      PROVE  \E x \in Reach(f, h) : f[x] = Nil
  <2> DEFINE N == {n \in 0 .. NSlabs : a[n] = Nil}
  <2>1. PICK n \in N : \A m \in N : n <= m
    <3>1. N # {} /\ N \subseteq Nat
      BY <1>3, SlabAssumption DEF Endless
    <3> HIDE DEF N
    <3> QED
      BY <3>1, Least
  <2>2. n # 0
    BY <1>3, <2>1, NthStep
  <2>3. /\ n - 1 \in 0 .. NSlabs - 1 /\ n - 1 \in 0 .. NSlabs /\ (n - 1) + 1 = n
        /\ ~ (n <= n - 1)
    BY <2>1, <2>2, SlabAssumption
  <2>4. a[n - 1] # Nil
    BY <2>1, <2>3
  <2>5. a[(n - 1) + 1] = IF a[n - 1] = Nil THEN Nil ELSE f[a[n - 1]]
    BY <2>3, NthStep
  <2>6. f[a[n - 1]] = Nil
    <3> HIDE DEF a
    <3> QED
      BY <2>1, <2>3, <2>4, <2>5
  <2>7. a[n - 1] \in Slabs
    BY <2>3, <2>4, NthType DEF Pointer
  <2>8. a[n - 1] \in Reach(f, h)
    BY <2>3, <2>7, ReachIsWalk
  <2> QED
    BY <2>6, <2>8
<1> QED
  BY <1>1, <1>2, <1>3 DEF Ends

(* Of two slabs of a list, one comes after the other.                      *)
LEMMA ReachLinear ==
    ASSUME NEW f \in [Slabs -> Pointer], NEW h \in Pointer,
           NEW x \in Reach(f, h), NEW y \in Reach(f, h)
    PROVE  y \in Reach(f, x) \/ x \in Reach(f, y)
<1> DEFINE a == Nth(f, h)
<1>1. PICK i \in 0 .. NSlabs : a[i] = x
  BY ReachIsWalk
<1>2. PICK j \in 0 .. NSlabs : a[j] = y
  BY ReachIsWalk
<1>3. x \in Slabs /\ y \in Slabs
  BY ReachType
<1>4. CASE i <= j
  <2>1. j - i \in 0 .. NSlabs - i /\ i + (j - i) = j /\ j - i \in 0 .. NSlabs
    BY <1>4, SlabAssumption
  <2>2. Nth(f, a[i])[j - i] = a[i + (j - i)]
    BY <2>1, NthShift
  <2> HIDE DEF a
  <2>3. Nth(f, x)[j - i] = y
    BY <1>1, <1>2, <2>1, <2>2
  <2> QED
    BY <1>3, <2>1, <2>3, ReachIsWalk
<1>5. CASE j <= i
  <2>1. i - j \in 0 .. NSlabs - j /\ j + (i - j) = i /\ i - j \in 0 .. NSlabs
    BY <1>5, SlabAssumption
  <2>2. Nth(f, a[j])[i - j] = a[j + (i - j)]
    BY <2>1, NthShift
  <2> HIDE DEF a
  <2>3. Nth(f, y)[i - j] = x
    BY <1>1, <1>2, <2>1, <2>2
  <2> QED
    BY <1>3, <2>1, <2>3, ReachIsWalk
<1>6. i <= j \/ j <= i
  OBVIOUS
<1> QED
  BY <1>4, <1>5, <1>6

(* The end of a list comes after every slab of it.                         *)
LEMMA EndsFrom ==
    ASSUME NEW f \in [Slabs -> Pointer], NEW h \in Pointer, Ends(f, h),
           NEW s \in Reach(f, h)
    PROVE  Ends(f, s)
<1>1. PICK x \in Reach(f, h) : f[x] = Nil
  <2>1. h # Nil
    BY ReachNil
  <2> QED
    BY <2>1 DEF Ends
<1>2. x \in Slabs
  BY ReachType
<1>3. CASE x \in Reach(f, s)
  BY <1>1, <1>3 DEF Ends
<1>4. CASE s \in Reach(f, x)
  <2>1. Reach(f, x) = {x} \cup Reach(f, Nil)
    BY <1>1, <1>2, ReachNext
  <2>2. s = x
    BY <1>4, <2>1, ReachNil
  <2> QED
    BY <1>2, <2>2, <1>1, ReachHead DEF Ends
<1> QED
  BY <1>1, <1>3, <1>4, ReachLinear

(* A list that ends does not come back.                                    *)
LEMMA NoReturn ==
    ASSUME NEW f \in [Slabs -> Pointer], NEW s \in Slabs, Ends(f, s)
    PROVE  s \notin Reach(f, f[s])
<1> SUFFICES ASSUME s \in Reach(f, f[s])
             PROVE  FALSE
  OBVIOUS
<1>0. s \in Pointer /\ s # Nil /\ f[s] \in Pointer
  BY ReachType DEF Pointer
<1> DEFINE Y == {x \in Slabs : s \in Reach(f, x)}
<1>1. ASSUME NEW x \in Y
      PROVE  f[x] # Nil /\ f[x] \in Y
  <2>1. s \in Reach(f, f[x])
    <3>1. CASE x = s
      BY <3>1
    <3>2. CASE x # s
      <4>1. Reach(f, x) = {x} \cup Reach(f, f[x])
        BY ReachNext
      <4> QED
        BY <3>2, <4>1
    <3> QED
      BY <3>1, <3>2
  <2>2. f[x] # Nil
    BY <2>1, ReachNil
  <2>3. f[x] \in Slabs
    BY <2>2 DEF Pointer
  <2> QED
    BY <2>1, <2>2, <2>3
<1>2. s \in Y
  BY ReachHead
<1>3. Reach(f, s) \subseteq Y
  <2> HIDE DEF Y
  <2> QED
    BY <1>0, <1>1, <1>2, ReachLeast
<1>4. PICK x \in Reach(f, s) : f[x] = Nil
  BY <1>0 DEF Ends
<1> QED
  BY <1>1, <1>3, <1>4

(* Nor does it reach a slab in two ways.                                   *)
LEMMA OnePredecessor ==
    ASSUME NEW f \in [Slabs -> Pointer], NEW h \in Pointer, Ends(f, h),
           NEW x \in Reach(f, h), NEW y \in Reach(f, h), f[x] = f[y], f[x] # Nil
    PROVE  x = y
<1> SUFFICES ASSUME x # y
             PROVE  FALSE
  OBVIOUS
<1>0. /\ x \in Slabs /\ y \in Slabs /\ f[x] \in Slabs /\ f[x] \in Pointer
      /\ f[x] \in Reach(f, h)
  BY ReachType, ReachStep DEF Pointer
<1>1. Ends(f, f[x])
  BY <1>0, EndsFrom
<1>2. ASSUME NEW v \in Slabs, NEW w \in Slabs, v # w, f[v] = f[x], f[w] = f[x], w \in Reach(f, v)
      PROVE  FALSE
  <2>1. w \in Reach(f, f[v])
    BY <1>2, ReachNext
  <2>2. w \in Reach(f, f[x])
    BY <1>2, <2>1
  <2>3. w # f[x]
    <3>1. SUFFICES ASSUME w = f[x]
                   PROVE  FALSE
      OBVIOUS
    <3>2. f[w] = w
      BY <1>2, <3>1
    <3>3. w \in Reach(f, f[w])
      BY <3>2, ReachHead
    <3> QED
      BY <1>1, <3>1, <3>3, NoReturn
  <2>4. w \in Reach(f, f[f[x]])
    BY <1>0, <2>2, <2>3, ReachNext
  <2>5. f[f[x]] \in Pointer
    BY <1>0
  <2>6. f[w] \in Reach(f, f[f[x]])
    BY <1>0, <1>2, <2>4, <2>5, ReachStep
  <2> QED
    BY <1>0, <1>1, <1>2, <2>6, NoReturn
<1>3. CASE y \in Reach(f, x)
  BY <1>0, <1>2, <1>3
<1>4. CASE x \in Reach(f, y)
  BY <1>0, <1>2, <1>4
<1> QED
  BY <1>3, <1>4, ReachLinear

-----------------------------------------------------------------------------
(* The lists of a cache.                                                   *)

QueueType == [next : [Slabs -> Pointer], head : [Kinds -> Pointer]]

On(q, k) == Reach(q.next, q.head[k])

(* What the removal loop of memory_slab_free does: the slab is the head,   *)
(* or some p before it gets its successor.  The way to p does not depend   *)
(* on the pointers of p and of the slab.                                   *)
LEMMA UnlinkIs ==
    ASSUME NEW q \in QueueType, NEW k \in Kinds, NEW s \in On(q, k)
    PROVE  \/ /\ q.head[k] = s
              /\ Unlink(q, k, s) = [next |-> q.next, head |-> [q.head EXCEPT ![k] = q.next[s]]]
           \/ \E p \in On(q, k) :
                /\ p # s /\ q.head[k] # s /\ q.next[p] = s
                /\ Unlink(q, k, s) = [next |-> [q.next EXCEPT ![p] = q.next[s]], head |-> q.head]
                /\ \A g \in [Slabs -> Pointer] :
                      (\A x \in Slabs \ {p, s} : g[x] = q.next[x]) => p \in Reach(g, q.head[k])
<1> DEFINE f == q.next
           h == q.head[k]
           a == Nth(f, h)
           First(n) == a[n] = s /\ \A j \in 0 .. n - 1 : a[j] # s
           pos == CHOOSE n \in 0 .. NSlabs : First(n)
<1>0. /\ f \in [Slabs -> Pointer] /\ h \in Pointer /\ q.head \in [Kinds -> Pointer]
      /\ q = [next |-> f, head |-> q.head]
      /\ s \in Slabs /\ s # Nil
  BY ReachType DEF QueueType, On
<1>1. pos \in 0 .. NSlabs /\ First(pos)
  <2> DEFINE N == {n \in 0 .. NSlabs : a[n] = s}
  <2>1. N # {} /\ N \subseteq Nat
    BY ReachIsWalk, SlabAssumption DEF On
  <2>2. PICK n \in N : \A m \in N : n <= m
    <3> HIDE DEF N
    <3> QED
      BY <2>1, Least
  <2>3. n \in 0 .. NSlabs /\ First(n)
    BY <2>2, SlabAssumption
  <2> HIDE DEF First
  <2> QED
    BY <2>3
<1>2. Unlink(q, k, s) = IF pos = 0 THEN [q EXCEPT !.head[k] = q.next[s]]
                        ELSE [q EXCEPT !.next[a[pos - 1]] = q.next[s]]
  BY DEF Unlink
<1> HIDE DEF pos
<1>3. CASE pos = 0
  <2>1. h = s
    BY <1>1, <1>3, NthStep
  <2> QED
    BY <1>0, <1>2, <1>3, <2>1
<1>4. CASE pos # 0
  <2> DEFINE p == a[pos - 1]
  <2>1. /\ pos - 1 \in 0 .. NSlabs - 1 /\ pos - 1 \in 0 .. NSlabs /\ (pos - 1) + 1 = pos
        /\ pos - 1 \in 0 .. pos - 1 /\ 0 \in 0 .. pos - 1
    BY <1>1, <1>4, SlabAssumption
  <2>2. p # s /\ h # s
    <3>1. a[0] = h
      BY NthStep
    <3> QED
      BY <1>1, <2>1, <3>1
  <2>3. a[(pos - 1) + 1] = IF p = Nil THEN Nil ELSE f[p]
    BY <2>1, NthStep
  <2>4. a[pos] = IF p = Nil THEN Nil ELSE f[p]
    <3> HIDE DEF a
    <3> QED
      BY <2>1, <2>3
  <2>5. p # Nil /\ f[p] = s
    BY <1>0, <1>1, <2>4
  <2>6. p \in Slabs
    BY <1>0, <2>1, <2>5, NthType DEF Pointer
  <2>7. p \in On(q, k)
    BY <2>1, <2>6, ReachIsWalk DEF On
  <2>8. ASSUME NEW g \in [Slabs -> Pointer], \A x \in Slabs \ {p, s} : g[x] = f[x]
        PROVE  p \in Reach(g, h)
    <3> DEFINE b == Nth(g, h)
               T == {n \in Nat : n <= pos - 1 => b[n] = a[n] \/ p \in Reach(g, h)}
    <3>1. 0 \in T
      BY NthStep
    <3>2. ASSUME NEW n \in Nat, n \in T
          PROVE  n + 1 \in T
      <4> SUFFICES ASSUME n + 1 <= pos - 1, p \notin Reach(g, h)
                   PROVE  b[n + 1] = a[n + 1]
        OBVIOUS
      <4>1. /\ n \in 0 .. NSlabs - 1 /\ n \in 0 .. NSlabs /\ n \in 0 .. pos - 1
            /\ b[n] = a[n]
        BY <3>2, <1>1, SlabAssumption
      <4>2. b[n + 1] = IF b[n] = Nil THEN Nil ELSE g[b[n]]
        BY <4>1, NthStep
      <4>3. a[n + 1] = IF a[n] = Nil THEN Nil ELSE f[a[n]]
        BY <4>1, NthStep
      <4>4. a[n] # s
        BY <1>1, <4>1
      <4>5. a[n] # p
        BY <2>6, <4>1, ReachIsWalk
      <4>6. a[n] # Nil => a[n] \in Slabs
        BY <1>0, <4>1, NthType DEF Pointer
      <4> HIDE DEF a, b, p
      <4> QED
        BY <2>8, <4>1, <4>2, <4>3, <4>4, <4>5, <4>6
    <3>3. Nat \subseteq T
      <4> HIDE DEF T
      <4> QED
        BY <3>1, <3>2, NatInSet
    <3>4. b[pos - 1] = p \/ p \in Reach(g, h)
      BY <2>1, <3>3, SlabAssumption
    <3> QED
      BY <2>1, <2>6, <3>4, ReachIsWalk
  <2>9. Unlink(q, k, s) = [next |-> [f EXCEPT ![p] = f[s]], head |-> q.head]
    <3> HIDE DEF p
    <3>1. Unlink(q, k, s) = [q EXCEPT !.next[p] = q.next[s]]
      BY <1>2, <1>4 DEF p
    <3> QED
      BY <1>0, <3>1
  <2> HIDE DEF p, a
  <2> QED
    BY <2>2, <2>5, <2>7, <2>8, <2>9
<1> QED
  BY <1>3, <1>4

LEMMA UnlinkType ==
    ASSUME NEW q \in QueueType, NEW k \in Kinds, NEW s \in On(q, k)
    PROVE  /\ Unlink(q, k, s) \in QueueType
           /\ \A x \in Slabs \ On(q, k) : Unlink(q, k, s).next[x] = q.next[x]
           /\ Unlink(q, k, s).next[s] = q.next[s]
           /\ \A j \in Kinds \ {k} : Unlink(q, k, s).head[j] = q.head[j]
<1>1. s \in Slabs /\ q.next[s] \in Pointer
  BY ReachType DEF QueueType, On
<1> DEFINE u == Unlink(q, k, s)
<1>2. ASSUME u = [next |-> q.next, head |-> [q.head EXCEPT ![k] = q.next[s]]]
      PROVE  /\ u \in QueueType
             /\ \A x \in Slabs \ On(q, k) : u.next[x] = q.next[x]
             /\ u.next[s] = q.next[s]
             /\ \A j \in Kinds \ {k} : u.head[j] = q.head[j]
  <2> HIDE DEF u
  <2> QED
    BY <1>1, <1>2 DEF QueueType
<1>3. ASSUME NEW p \in On(q, k), p # s,
             u = [next |-> [q.next EXCEPT ![p] = q.next[s]], head |-> q.head]
      PROVE  /\ u \in QueueType
             /\ \A x \in Slabs \ On(q, k) : u.next[x] = q.next[x]
             /\ u.next[s] = q.next[s]
             /\ \A j \in Kinds \ {k} : u.head[j] = q.head[j]
  <2> HIDE DEF u
  <2> QED
    BY <1>1, <1>3 DEF QueueType
<1> HIDE DEF u
<1>4. \/ u = [next |-> q.next, head |-> [q.head EXCEPT ![k] = q.next[s]]]
      \/ \E p \in On(q, k) :
           p # s /\ u = [next |-> [q.next EXCEPT ![p] = q.next[s]], head |-> q.head]
  BY UnlinkIs DEF u
<1>5. /\ u \in QueueType
      /\ \A x \in Slabs \ On(q, k) : u.next[x] = q.next[x]
      /\ u.next[s] = q.next[s]
      /\ \A j \in Kinds \ {k} : u.head[j] = q.head[j]
  BY <1>2, <1>3, <1>4
<1> QED
  BY <1>5 DEF u

LEMMA PushIs ==
    ASSUME NEW q \in QueueType, NEW k \in Kinds, NEW s \in Slabs
    PROVE  /\ Push(q, k, s) \in QueueType
           /\ Push(q, k, s).next = [q.next EXCEPT ![s] = q.head[k]]
           /\ Push(q, k, s).head = [q.head EXCEPT ![k] = s]
BY DEF Push, QueueType, Pointer

(* memory_slab_free looks for a slab on two lists.                         *)
Found(q, x) == x \in On(q, "partial") \/ x \in On(q, "empty")

LEMMA FoundClosed ==
    ASSUME NEW q \in QueueType, NEW X,
           q.head["partial"] # Nil => q.head["partial"] \in X,
           q.head["empty"] # Nil => q.head["empty"] \in X,
           \A x \in X \cap Slabs : q.next[x] # Nil => q.next[x] \in X,
           NEW y, Found(q, y)
    PROVE  y \in X
<1>1. q.next \in [Slabs -> Pointer] /\ q.head["partial"] \in Pointer /\ q.head["empty"] \in Pointer
  BY DEF QueueType, Kinds
<1>2. On(q, "partial") \subseteq X
  BY <1>1, ReachLeast DEF On
<1>3. On(q, "empty") \subseteq X
  BY <1>1, ReachLeast DEF On
<1> QED
  BY <1>2, <1>3 DEF Found

LEMMA FoundStep ==
    ASSUME NEW q \in QueueType
    PROVE  /\ q.head["partial"] # Nil => Found(q, q.head["partial"])
           /\ q.head["empty"] # Nil => Found(q, q.head["empty"])
           /\ \A x : Found(q, x) => x \in Slabs
           /\ \A x : Found(q, x) /\ q.next[x] # Nil => Found(q, q.next[x])
<1>1. q.next \in [Slabs -> Pointer] /\ q.head["partial"] \in Pointer /\ q.head["empty"] \in Pointer
  BY DEF QueueType, Kinds
<1>2. q.head["partial"] # Nil => q.head["partial"] \in On(q, "partial")
  BY <1>1, ReachHead DEF On, Pointer
<1>3. q.head["empty"] # Nil => q.head["empty"] \in On(q, "empty")
  BY <1>1, ReachHead DEF On, Pointer
<1>4. On(q, "partial") \subseteq Slabs /\ On(q, "empty") \subseteq Slabs
  BY ReachType DEF On
<1>5. \A x \in On(q, "partial") : q.next[x] # Nil => q.next[x] \in On(q, "partial")
  BY <1>1, ReachStep DEF On
<1>6. \A x \in On(q, "empty") : q.next[x] # Nil => q.next[x] \in On(q, "empty")
  BY <1>1, ReachStep DEF On
<1> QED
  BY <1>2, <1>3, <1>4, <1>5, <1>6 DEF Found

(* A slab that goes from the partial list to the full list, when its last  *)
(* object is freed, takes no other slab along.                             *)
LEMMA FoundAfterRefill ==
    ASSUME NEW q \in QueueType, NEW s \in On(q, "partial"), NEW y, Found(q, y), y # s
    PROVE  Found(Push(Unlink(q, "partial", s), "full", s), y)
<1> DEFINE u == Unlink(q, "partial", s)
           r == Push(u, "full", s)
           X == {x \in Slabs : Found(r, x)} \cup {s}
<1>0. s \in Slabs /\ u \in QueueType /\ "partial" \in Kinds /\ "full" \in Kinds
  BY ReachType, UnlinkType DEF On, Kinds
<1>1. /\ r \in QueueType /\ r.next = [u.next EXCEPT ![s] = u.head["full"]]
      /\ r.head = [u.head EXCEPT !["full"] = s]
  <2> HIDE DEF u
  <2> QED
    BY <1>0 DEF Push, QueueType, Pointer
<1>2. r.head["partial"] = u.head["partial"] /\ r.head["empty"] = u.head["empty"]
  BY <1>0, <1>1 DEF QueueType, Kinds
<1>3. /\ q.head["partial"] # Nil => q.head["partial"] \in X
      /\ q.head["empty"] # Nil => q.head["empty"] \in X
      /\ \A x \in X \cap Slabs : q.next[x] # Nil => q.next[x] \in X
  <2>0. /\ r.head["partial"] # Nil => r.head["partial"] \in X
        /\ r.head["empty"] # Nil => r.head["empty"] \in X
        /\ \A x \in X \ {s} : r.next[x] # Nil => r.next[x] \in X
    <3> HIDE DEF r
    <3> QED
      BY <1>1, FoundStep
  <2>1. CASE /\ q.head["partial"] = s
             /\ u = [next |-> q.next, head |-> [q.head EXCEPT !["partial"] = q.next[s]]]
    <3>1. /\ u.head["partial"] = q.next[s] /\ u.head["empty"] = q.head["empty"]
          /\ u.next = q.next
      BY <2>1 DEF QueueType, Kinds
    <3>2. \A x \in Slabs \ {s} : r.next[x] = q.next[x]
      BY <1>0, <1>1, <3>1 DEF QueueType
    <3> HIDE DEF u, r
    <3> QED
      BY <1>0, <1>2, <2>0, <2>1, <3>1, <3>2
  <2>2. ASSUME NEW p \in On(q, "partial"),
               p # s, q.head["partial"] # s, q.next[p] = s,
               u = [next |-> [q.next EXCEPT ![p] = q.next[s]], head |-> q.head],
               \A g \in [Slabs -> Pointer] :
                   (\A x \in Slabs \ {p, s} : g[x] = q.next[x]) => p \in Reach(g, q.head["partial"])
        PROVE  /\ q.head["partial"] # Nil => q.head["partial"] \in X
               /\ q.head["empty"] # Nil => q.head["empty"] \in X
               /\ \A x \in X \cap Slabs : q.next[x] # Nil => q.next[x] \in X
    <3>1. u.head = q.head /\ u.next = [q.next EXCEPT ![p] = q.next[s]] /\ p \in Slabs
      BY <2>2, ReachType DEF On
    <3>2. /\ \A x \in Slabs \ {p, s} : r.next[x] = q.next[x]
          /\ r.next[p] = q.next[s]
      BY <1>0, <1>1, <2>2, <3>1 DEF QueueType
    <3>3. r.next \in [Slabs -> Pointer]
      <4> HIDE DEF r
      <4> QED
        BY <1>1 DEF QueueType
    <3> HIDE DEF u, r
    <3>4. p \in Reach(r.next, q.head["partial"])
      BY <2>2, <3>2, <3>3
    <3>5. Found(r, p)
      BY <1>2, <3>1, <3>4 DEF Found, On
    <3>6. p \in X
      BY <3>1, <3>5
    <3>7. q.next[s] # Nil => q.next[s] \in X
      BY <2>0, <2>2, <3>2, <3>6
    <3> HIDE DEF X
    <3>8. s \in X
      BY DEF X
    <3> QED
      BY <1>0, <1>2, <2>0, <2>2, <3>1, <3>2, <3>7, <3>8
  <2> HIDE DEF u, r, X
  <2> QED
    BY <1>0, <2>1, <2>2, UnlinkIs DEF u
<1>4. y \in X
  <2> HIDE DEF X
  <2> QED
    BY <1>3, FoundClosed
<1> QED
  BY <1>4

(* A slab that goes from the empty list to the partial list, when an       *)
(* object of it is freed, is found there, and so are all others.           *)
LEMMA FoundAfterMove ==
    ASSUME NEW q \in QueueType, NEW s \in On(q, "empty"), NEW y, Found(q, y)
    PROVE  Found(Push(Unlink(q, "empty", s), "partial", s), y)
<1> DEFINE u == Unlink(q, "empty", s)
           r == Push(u, "partial", s)
           X == {x \in Slabs : Found(r, x)}
<1>0. s \in Slabs /\ s # Nil /\ u \in QueueType /\ "partial" \in Kinds /\ "empty" \in Kinds
  BY ReachType, UnlinkType DEF On, Kinds
<1>1. /\ r \in QueueType /\ r.next = [u.next EXCEPT ![s] = u.head["partial"]]
      /\ r.head = [u.head EXCEPT !["partial"] = s]
  <2> HIDE DEF u
  <2> QED
    BY <1>0, PushIs
<1>2. /\ r.head["partial"] = s /\ r.head["empty"] = u.head["empty"]
      /\ r.next[s] = u.head["partial"]
  BY <1>0, <1>1 DEF QueueType, Kinds
<1>3. /\ q.head["partial"] # Nil => q.head["partial"] \in X
      /\ q.head["empty"] # Nil => q.head["empty"] \in X
      /\ \A x \in X \cap Slabs : q.next[x] # Nil => q.next[x] \in X
  <2>0. /\ s \in X
        /\ r.head["empty"] # Nil => r.head["empty"] \in X
        /\ \A x \in X : r.next[x] # Nil => r.next[x] \in X
    <3> HIDE DEF r
    <3> QED
      BY <1>0, <1>1, <1>2, FoundStep
  <2>1. CASE /\ q.head["empty"] = s
             /\ u = [next |-> q.next, head |-> [q.head EXCEPT !["empty"] = q.next[s]]]
    <3>1. /\ u.head["empty"] = q.next[s] /\ u.head["partial"] = q.head["partial"]
          /\ u.next = q.next
      BY <2>1 DEF QueueType, Kinds
    <3>2. \A x \in Slabs \ {s} : r.next[x] = q.next[x]
      BY <1>0, <1>1, <3>1 DEF QueueType
    <3> HIDE DEF u, r
    <3> QED
      BY <1>0, <1>2, <2>0, <2>1, <3>1, <3>2
  <2>2. ASSUME NEW p \in On(q, "empty"),
               p # s, q.head["empty"] # s, q.next[p] = s,
               u = [next |-> [q.next EXCEPT ![p] = q.next[s]], head |-> q.head],
               \A g \in [Slabs -> Pointer] :
                   (\A x \in Slabs \ {p, s} : g[x] = q.next[x]) => p \in Reach(g, q.head["empty"])
        PROVE  /\ q.head["partial"] # Nil => q.head["partial"] \in X
               /\ q.head["empty"] # Nil => q.head["empty"] \in X
               /\ \A x \in X \cap Slabs : q.next[x] # Nil => q.next[x] \in X
    <3>1. u.head = q.head /\ u.next = [q.next EXCEPT ![p] = q.next[s]] /\ p \in Slabs
      BY <2>2, ReachType DEF On
    <3>2. /\ \A x \in Slabs \ {p, s} : r.next[x] = q.next[x]
          /\ r.next[p] = q.next[s]
      BY <1>0, <1>1, <2>2, <3>1 DEF QueueType
    <3>3. r.next \in [Slabs -> Pointer]
      <4> HIDE DEF r
      <4> QED
        BY <1>1 DEF QueueType
    <3> HIDE DEF u, r
    <3>4. p \in Reach(r.next, q.head["empty"])
      BY <2>2, <3>2, <3>3
    <3>5. Found(r, p)
      BY <1>2, <3>1, <3>4 DEF Found, On
    <3>6. p \in X
      BY <3>1, <3>5
    <3>7. q.next[s] # Nil => q.next[s] \in X
      BY <2>0, <2>2, <3>2, <3>6
    <3> HIDE DEF X
    <3> QED
      BY <1>0, <1>2, <2>0, <2>2, <3>1, <3>2, <3>7
  <2> HIDE DEF u, r, X
  <2> QED
    BY <1>0, <2>1, <2>2, UnlinkIs DEF u
<1>4. y \in X
  <2> HIDE DEF X
  <2> QED
    BY <1>3, FoundClosed
<1> QED
  BY <1>4

(* A slab that goes from the head of the partial list to the empty list,   *)
(* when its last object is allocated: all are still found.                 *)
LEMMA FoundAfterRetire ==
    ASSUME NEW q \in QueueType, NEW n, q.head["partial"] \in Slabs
    PROVE  /\ Retire(q, q.head["partial"], n) \in QueueType
           /\ \A y : Found(q, y) => Found(Retire(q, q.head["partial"], n), y)
           /\ Found(Retire(q, q.head["partial"], n), q.head["partial"])
<1> DEFINE s == q.head["partial"]
           u == [q EXCEPT !.head["partial"] = q.next[s]]
           r == Push(u, "empty", s)
           X == {x \in Slabs : Found(r, x)}
<1>0. s \in Slabs /\ s # Nil /\ "partial" \in Kinds /\ "empty" \in Kinds
  BY ReachType DEF Kinds
<1>1. CASE n # NObjs
  BY <1>0, <1>1, FoundStep DEF Retire
<1>2. CASE n = NObjs
  <2>1. Retire(q, s, n) = r
    BY <1>2 DEF Retire
  <2>0. u \in QueueType
    BY <1>0 DEF QueueType, Pointer
  <2>2. u.next = q.next /\ u.head = [q.head EXCEPT !["partial"] = q.next[s]]
    BY <1>0 DEF QueueType, Pointer
  <2>3. /\ r \in QueueType /\ r.next = [u.next EXCEPT ![s] = u.head["empty"]]
        /\ r.head = [u.head EXCEPT !["empty"] = s]
    <3>1. s \in Slabs /\ "empty" \in Kinds
      BY <1>0
    <3> HIDE DEF u, s
    <3>2. /\ Push(u, "empty", s) \in QueueType
          /\ Push(u, "empty", s).next = [u.next EXCEPT ![s] = u.head["empty"]]
          /\ Push(u, "empty", s).head = [u.head EXCEPT !["empty"] = s]
      BY <2>0, <3>1, PushIs
    <3> QED
      BY <3>2
  <2>4. /\ r.head["partial"] = q.next[s] /\ r.head["empty"] = s
        /\ r.next[s] = q.head["empty"]
        /\ \A x \in Slabs \ {s} : r.next[x] = q.next[x]
    <3> HIDE DEF u, r
    <3> QED
      BY <1>0, <2>0, <2>2, <2>3 DEF QueueType, Kinds
  <2>5. /\ s \in X
        /\ r.head["partial"] # Nil => r.head["partial"] \in X
        /\ \A x \in X : r.next[x] # Nil => r.next[x] \in X
    <3> HIDE DEF r
    <3> QED
      BY <1>0, <2>3, <2>4, FoundStep
  <2>6. /\ s \in X
        /\ q.head["empty"] # Nil => q.head["empty"] \in X
        /\ \A x \in X \cap Slabs : q.next[x] # Nil => q.next[x] \in X
    <3> HIDE DEF X, r
    <3> QED
      BY <1>0, <2>4, <2>5
  <2>7. \A y : Found(q, y) => y \in X
    <3> HIDE DEF X
    <3> QED
      BY <2>6, FoundClosed
  <2> QED
    BY <2>1, <2>3, <2>6, <2>7
<1> QED
  BY <1>1, <1>2

(* "Take one full slab to the partial" hides no slab either.               *)
LEMMA FoundAfterTake ==
    ASSUME NEW q \in QueueType, q.head["partial"] # Nil \/ q.head["full"] # Nil
    PROVE  /\ TakeFull(q) \in QueueType
           /\ TakeFull(q).next = q.next
           /\ TakeFull(q).head["partial"] = IF q.head["partial"] # Nil THEN q.head["partial"]
                                            ELSE q.head["full"]
           /\ TakeFull(q).head["partial"] \in Slabs
           /\ TakeFull(q).head["full"] = IF q.head["partial"] # Nil THEN q.head["full"]
                                         ELSE q.next[q.head["full"]]
           /\ TakeFull(q).head["empty"] = q.head["empty"]
           /\ \A y : Found(q, y) => Found(TakeFull(q), y)
<1> DEFINE s == q.head["full"]
           t == [q EXCEPT !.head = [@ EXCEPT !["partial"] = s, !["full"] = q.next[s]]]
<1>0. q.head \in [Kinds -> Pointer] /\ q.next \in [Slabs -> Pointer]
  BY DEF QueueType
<1>1. CASE q.head["partial"] # Nil
  BY <1>0, <1>1 DEF TakeFull, Kinds, Pointer
<1>2. CASE q.head["partial"] = Nil
  <2>1. TakeFull(q) = t
    BY <1>2 DEF TakeFull
  <2>2. s \in Slabs /\ q.next[s] \in Pointer
    BY <1>0, <1>2 DEF Kinds, Pointer
  <2>3. /\ t \in QueueType /\ t.next = q.next /\ t.head["partial"] = s
        /\ t.head["full"] = q.next[s] /\ t.head["empty"] = q.head["empty"]
    BY <1>0, <2>2 DEF QueueType, Kinds, Pointer
  <2>4. ASSUME NEW y, Found(q, y)
        PROVE  Found(t, y)
    <3>1. y \in On(q, "empty")
      BY <1>0, <1>2, <2>4, ReachNil DEF Found, On
    <3> HIDE DEF t
    <3> QED
      BY <2>3, <3>1 DEF Found, On
  <2> HIDE DEF t
  <2> QED
    BY <1>2, <2>1, <2>2, <2>3, <2>4
<1> QED
  BY <1>1, <1>2

-----------------------------------------------------------------------------
(* Lists that have not run together.                                       *)
Apart(q) ==
    \A k \in Kinds :
        /\ Ends(q.next, q.head[k])
        /\ \A j \in Kinds \ {k} : On(q, k) \cap On(q, j) = {}

(* Taking a slab from a list changes no other list.                        *)
LEMMA UnlinkApart ==
    ASSUME NEW q \in QueueType, Apart(q), NEW k \in Kinds, NEW s \in On(q, k)
    PROVE  /\ Apart(Unlink(q, k, s))
           /\ On(Unlink(q, k, s), k) = On(q, k) \ {s}
           /\ \A j \in Kinds \ {k} : On(Unlink(q, k, s), j) = On(q, j)
<1> DEFINE u == Unlink(q, k, s)
           f == q.next
           h == q.head[k]
           g == u.next
<1>0. /\ f \in [Slabs -> Pointer] /\ h \in Pointer /\ q.head \in [Kinds -> Pointer]
      /\ s \in Slabs /\ s # Nil /\ f[s] \in Pointer /\ Ends(f, h)
      /\ s \in Reach(f, h)
  BY ReachType DEF QueueType, On, Apart
<1>1. /\ u \in QueueType
      /\ \A x \in Slabs \ On(q, k) : g[x] = f[x]
      /\ \A j \in Kinds \ {k} : u.head[j] = q.head[j]
  BY UnlinkType
<1>2. /\ g \in [Slabs -> Pointer] /\ u.head \in [Kinds -> Pointer]
  <2> HIDE DEF u
  <2> QED
    BY <1>1 DEF QueueType
<1>3. Ends(f, s) /\ s \notin Reach(f, f[s])
  BY <1>0, EndsFrom, NoReturn
<1>4. ASSUME NEW j \in Kinds \ {k}
      PROVE  On(u, j) = On(q, j) /\ Ends(g, u.head[j])
  <2>1. \A x \in On(q, j) : g[x] = f[x]
    <3>1. On(q, j) \cap On(q, k) = {}
      BY DEF Apart
    <3>2. On(q, j) \subseteq Slabs
      BY ReachType DEF On
    <3> HIDE DEF u
    <3> QED
      BY <1>1, <3>1, <3>2
  <2>2. q.head[j] \in Pointer /\ Ends(f, q.head[j])
    BY <1>0 DEF Apart
  <2>3. Reach(g, q.head[j]) = Reach(f, q.head[j])
    <3> HIDE DEF g
    <3> QED
      BY <1>0, <1>2, <2>1, <2>2, ReachFrame DEF On
  <2>4. On(u, j) = On(q, j)
    <3> HIDE DEF u
    <3> QED
      BY <1>1, <2>3 DEF On
  <2>5. Ends(g, q.head[j])
    <3> HIDE DEF g
    <3> QED
      BY <2>1, <2>2, <2>3 DEF Ends, On
  <2> QED
    BY <1>1, <2>4, <2>5
<1>5. On(u, k) = On(q, k) \ {s} /\ Ends(g, u.head[k])
  <2>1. CASE h = s /\ u = [next |-> q.next, head |-> [q.head EXCEPT ![k] = q.next[s]]]
    <3>1. u.next = f /\ u.head[k] = f[s]
      BY <1>0, <2>1
    <3>2. Reach(f, s) = {s} \cup Reach(f, f[s])
      BY <1>0, ReachNext
    <3>3. On(u, k) = On(q, k) \ {s}
      <4> HIDE DEF u
      <4> QED
        BY <1>3, <2>1, <3>1, <3>2 DEF On
    <3>4. Ends(f, f[s])
      BY <1>0, <1>3, <3>2 DEF Ends
    <3> QED
      BY <3>1, <3>3, <3>4
  <2>2. ASSUME NEW p \in On(q, k),
               p # s, h # s, q.next[p] = s,
               u = [next |-> [q.next EXCEPT ![p] = q.next[s]], head |-> q.head],
               \A e \in [Slabs -> Pointer] :
                   (\A x \in Slabs \ {p, s} : e[x] = q.next[x]) => p \in Reach(e, q.head[k])
        PROVE  On(u, k) = On(q, k) \ {s} /\ Ends(g, u.head[k])
    <3>1. /\ u.head[k] = h /\ p \in Slabs /\ p \in Reach(f, h)
          /\ \A x \in Slabs \ {p} : g[x] = f[x]
          /\ g[p] = f[s]
      BY <1>0, <2>2, ReachType DEF On
    <3>2. p \in Reach(g, h)
      <4> HIDE DEF g
      <4> QED
        BY <1>2, <2>2, <3>1
    <3>3. Reach(g, h) \subseteq Reach(f, h) \ {s}
      <4> DEFINE X == Reach(f, h) \ {s}
      <4>1. h # Nil => h \in X
        BY <1>0, <2>2, ReachHead DEF Pointer
      <4>2. ASSUME NEW x \in X \cap Slabs, g[x] # Nil
            PROVE  g[x] \in X
        <5>1. CASE x = p
          <6>1. f[s] \in Reach(f, h)
            BY <1>0, <3>1, <4>2, <5>1, ReachStep
          <6>2. f[s] # s
            BY <1>0, <1>3, ReachHead
          <6> QED
            BY <3>1, <5>1, <6>1, <6>2
        <5>2. CASE x # p
          <6>1. g[x] = f[x]
            BY <3>1, <5>2
          <6>2. f[x] \in Reach(f, h)
            BY <1>0, <4>2, <6>1, ReachStep
          <6>3. f[x] # s
            BY <1>0, <2>2, <3>1, <5>2, OnePredecessor
          <6> QED
            BY <6>1, <6>2, <6>3
        <5> QED
          BY <5>1, <5>2
      <4> HIDE DEF X, g
      <4>3. Reach(g, h) \subseteq X
        BY <1>0, <1>2, <4>1, <4>2, ReachLeast
      <4> QED
        BY <4>3 DEF X
    <3>4. Reach(f, h) \subseteq Reach(g, h) \cup {s}
      <4> DEFINE X == Reach(g, h) \cup {s}
      <4>1. h # Nil => h \in X
        BY <1>0, ReachHead DEF Pointer
      <4>2. ASSUME NEW x \in X \cap Slabs, f[x] # Nil
            PROVE  f[x] \in X
        <5>1. CASE x = p
          BY <2>2, <5>1
        <5>2. CASE x = s
          <6>1. g[p] \in Reach(g, h)
            <7> HIDE DEF g
            <7> QED
              BY <1>0, <1>2, <3>1, <3>2, <4>2, <5>2, ReachStep
          <6> QED
            BY <3>1, <5>2, <6>1
        <5>3. CASE x # p /\ x # s
          <6>1. g[x] = f[x] /\ x \in Reach(g, h)
            BY <3>1, <5>3
          <6>2. g[x] \in Reach(g, h)
            <7> HIDE DEF g
            <7> QED
              BY <1>0, <1>2, <6>1, <4>2, ReachStep
          <6> QED
            BY <6>1, <6>2
        <5> QED
          BY <5>1, <5>2, <5>3
      <4> HIDE DEF X, g
      <4>3. Reach(f, h) \subseteq X
        BY <1>0, <4>1, <4>2, ReachLeast
      <4> QED
        BY <4>3 DEF X
    <3>5. Reach(g, h) = Reach(f, h) \ {s}
      BY <3>3, <3>4
    <3>6. Ends(g, h)
      <4>1. PICK x \in Reach(f, h) : f[x] = Nil
        BY <1>0, ReachNil DEF Ends
      <4>2. CASE x = s
        BY <3>1, <3>2, <4>1, <4>2 DEF Ends
      <4>3. CASE x # s
        <5>1. x # p /\ x \in Slabs
          BY <1>0, <2>2, <4>1, ReachType
        <5>2. x \in Reach(g, h) /\ g[x] = Nil
          BY <3>1, <3>5, <4>1, <4>3, <5>1
        <5> QED
          BY <5>2 DEF Ends
      <4> QED
        BY <4>2, <4>3
    <3> HIDE DEF u
    <3> QED
      BY <3>1, <3>5, <3>6 DEF On
  <2> HIDE DEF u
  <2> QED
    BY <2>1, <2>2, UnlinkIs DEF u
<1>6. Apart(u)
  <2> HIDE DEF u
  <2>1. \A j \in Kinds : Ends(g, u.head[j])
    BY <1>4, <1>5
  <2>2. \A i, j \in Kinds : i # j => On(q, i) \cap On(q, j) = {}
    BY DEF Apart
  <2>3. \A j \in Kinds : On(u, j) \subseteq On(q, j)
    BY <1>4, <1>5
  <2>4. \A i, j \in Kinds : i # j => On(u, i) \cap On(u, j) = {}
    BY <2>2, <2>3
  <2> QED
    BY <2>1, <2>4 DEF Apart
<1> QED
  BY <1>4, <1>5, <1>6

(* Putting a slab that is on no list at the head of one.                   *)
LEMMA PushApart ==
    ASSUME NEW q \in QueueType, Apart(q), NEW k \in Kinds, NEW s \in Slabs,
           \A j \in Kinds : s \notin On(q, j)
    PROVE  /\ Apart(Push(q, k, s))
           /\ On(Push(q, k, s), k) = On(q, k) \cup {s}
           /\ \A j \in Kinds \ {k} : On(Push(q, k, s), j) = On(q, j)
<1> DEFINE r == Push(q, k, s)
           f == q.next
           g == r.next
<1>0. /\ f \in [Slabs -> Pointer] /\ q.head \in [Kinds -> Pointer]
  BY DEF QueueType
<1>1. r \in QueueType /\ g = [f EXCEPT ![s] = q.head[k]] /\ r.head = [q.head EXCEPT ![k] = s]
  BY PushIs
<1> HIDE DEF r
<1>2. /\ g \in [Slabs -> Pointer] /\ g[s] = q.head[k] /\ r.head[k] = s
      /\ \A x \in Slabs \ {s} : g[x] = f[x]
      /\ \A j \in Kinds \ {k} : r.head[j] = q.head[j]
  BY <1>0, <1>1 DEF QueueType
<1>3. ASSUME NEW j \in Kinds
      PROVE  Reach(g, q.head[j]) = On(q, j) /\ Ends(g, q.head[j])
  <2>0. q.head[j] \in Pointer /\ Ends(f, q.head[j])
    BY <1>0 DEF Apart
  <2>1. \A x \in Reach(f, q.head[j]) : g[x] = f[x]
    <3>1. \A x \in Reach(f, q.head[j]) : x \in Slabs /\ x # s
      BY ReachType DEF On
    <3> QED
      BY <1>2, <3>1
  <2>2. Reach(g, q.head[j]) = Reach(f, q.head[j])
    BY <1>0, <1>2, <2>0, <2>1, ReachFrame
  <2> QED
    BY <2>0, <2>1, <2>2 DEF On, Ends
<1>4. ASSUME NEW j \in Kinds \ {k}
      PROVE  On(r, j) = On(q, j) /\ Ends(g, r.head[j])
  BY <1>2, <1>3 DEF On
<1>5. On(r, k) = On(q, k) \cup {s} /\ Ends(g, r.head[k])
  <2>1. Reach(g, s) = {s} \cup Reach(g, g[s])
    BY <1>2, ReachNext
  <2>2. On(r, k) = On(q, k) \cup {s}
    BY <1>2, <1>3, <2>1 DEF On
  <2>3. Ends(g, s)
    <3>1. CASE q.head[k] = Nil
      BY <1>2, <2>1, <3>1 DEF Ends
    <3>2. CASE q.head[k] # Nil
      <4>1. PICK x \in Reach(g, q.head[k]) : g[x] = Nil
        BY <1>3, <3>2 DEF Ends
      <4> QED
        BY <1>2, <2>1, <4>1 DEF Ends
    <3> QED
      BY <3>1, <3>2
  <2> QED
    BY <1>2, <2>2, <2>3
<1>6. Apart(r)
  <2>1. \A j \in Kinds : Ends(g, r.head[j])
    BY <1>4, <1>5
  <2>2. \A i, j \in Kinds : i # j => On(q, i) \cap On(q, j) = {}
    BY DEF Apart
  <2>3. \A i, j \in Kinds : i # j => On(r, i) \cap On(r, j) = {}
    BY <1>4, <1>5, <2>2
  <2> QED
    BY <2>1, <2>3 DEF Apart
<1> QED
  BY <1>4, <1>5, <1>6 DEF r

(* The slab at the head of a list.                                         *)
LEMMA HeadApart ==
    ASSUME NEW q \in QueueType, Apart(q), NEW k \in Kinds, q.head[k] # Nil
    PROVE  /\ q.head[k] \in On(q, k)
           /\ Unlink(q, k, q.head[k]) = [q EXCEPT !.head[k] = q.next[q.head[k]]]
<1>1. q.head[k] \in Slabs
  BY DEF QueueType, Pointer
<1>2. q.head[k] \in On(q, k)
  BY <1>1, ReachHead DEF On
<1>3. Unlink(q, k, q.head[k])
         = [next |-> q.next, head |-> [q.head EXCEPT ![k] = q.next[q.head[k]]]]
  BY <1>2, UnlinkIs
<1> QED
  BY <1>2, <1>3 DEF QueueType

-----------------------------------------------------------------------------
(* The lists stay within a set of slabs.                                   *)
Within(q, O) ==
    /\ \A k \in Kinds : q.head[k] # Nil => q.head[k] \in O
    /\ \A x \in O \cap Slabs : q.next[x] # Nil => q.next[x] \in O

LEMMA OnWithin ==
    ASSUME NEW q \in QueueType, NEW O, Within(q, O), NEW k \in Kinds
    PROVE  On(q, k) \subseteq O
<1>1. q.next \in [Slabs -> Pointer] /\ q.head[k] \in Pointer
  BY DEF QueueType
<1> QED
  BY <1>1, ReachLeast DEF On, Within

LEMMA UnlinkWithin ==
    ASSUME NEW q \in QueueType, NEW O, Within(q, O), NEW k \in Kinds, NEW s \in On(q, k)
    PROVE  Within(Unlink(q, k, s), O)
<1>0. s \in O /\ s \in Slabs
  BY OnWithin, ReachType DEF On
<1> DEFINE u == Unlink(q, k, s)
<1>1. ASSUME u = [next |-> q.next, head |-> [q.head EXCEPT ![k] = q.next[s]]]
      PROVE  Within(u, O)
  <2> HIDE DEF u
  <2> QED
    BY <1>0, <1>1 DEF Within, QueueType
<1>2. ASSUME NEW p \in On(q, k),
             u = [next |-> [q.next EXCEPT ![p] = q.next[s]], head |-> q.head]
      PROVE  Within(u, O)
  <2>1. p \in Slabs
    BY ReachType DEF On
  <2> HIDE DEF u
  <2> QED
    BY <1>0, <1>2, <2>1 DEF Within, QueueType
<1> HIDE DEF u
<1> QED
  BY <1>1, <1>2, UnlinkIs DEF u

LEMMA PushWithin ==
    ASSUME NEW q \in QueueType, NEW O, Within(q, O), NEW k \in Kinds, NEW s \in Slabs, s \in O
    PROVE  Within(Push(q, k, s), O)
<1> DEFINE r == Push(q, k, s)
<1>1. r.next = [q.next EXCEPT ![s] = q.head[k]] /\ r.head = [q.head EXCEPT ![k] = s]
  BY PushIs
<1> HIDE DEF r
<1>2. Within(r, O)
  BY <1>1 DEF Within, QueueType
<1> QED
  BY <1>2 DEF r
=============================================================================
