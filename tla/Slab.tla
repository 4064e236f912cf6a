-------------------------------- MODULE Slab --------------------------------
(***************************************************************************)
(* The slab allocator (slab.c): caches of objects of one size, each with   *)
(* three singly linked lists of slabs.  A "full" slab has all its objects  *)
(* free, a "partial" one some, an "empty" one none.  Every operation holds *)
(* memory_slab_allocator_t.lock, so each is one action.                    *)
(*                                                                         *)
(* The lists are modelled with their pointers (next, head), since what     *)
(* goes wrong with them is aliasing.  The search tree of the caches is the *)
(* set of names in it.  Caches are numbers; those of kmalloc.c are sizes.  *)
(***************************************************************************)
EXTENDS Integers, FiniteSets

CONSTANTS Caches,  \* names of caches
          Meta,    \* MEMORY_SLAB_CACHE_NAME, the cache of cache descriptors
          Kmallocs, \* the caches of kmalloc, kmalloc_sizes
          NSlabs,  \* slabs the page allocator can supply
          NObjs,   \* objects of a slab
          Nil      \* NULL

ASSUME SlabAssumption ==
    /\ Caches \subseteq Nat /\ Meta \in Caches /\ Kmallocs \subseteq Caches \ {Meta}
    /\ NSlabs \in Nat \ {0} /\ NObjs \in Nat \ {0, 1}
    /\ Nil \notin (1 .. NSlabs) \cup Caches

Slabs == 1 .. NSlabs
Objs == 0 .. NObjs - 1
Kinds == {"partial", "full", "empty"}

VARIABLES next,     \* memory_slab_hdr_t.next
          head,     \* memory_slab_cache_t.freelist
          marks,    \* the indices of a slab whose mark says free
          nused,    \* memory_slab_hdr_t.nused
          owner,    \* the cache a slab belongs to, Nil if not allocated yet
          created,  \* caches in the tree
          held,     \* objects handed out and not given back
          status,   \* "ok"; "hung" in a search that holds the lock; "fault"
          joined    \* history: a partial list has run on into a full list

vars == <<next, head, marks, nused, owner, created, held, status, joined>>

NoLists == [k \in Kinds |-> Nil]

(* _slab_cache_init: the first slab, with its first object taken, is the   *)
(* partial list of the cache of caches.                                    *)
Init ==
    /\ next = [s \in Slabs |-> Nil]
    /\ head = [c \in Caches |-> IF c = Meta THEN [NoLists EXCEPT !["partial"] = 1] ELSE NoLists]
    /\ marks = [s \in Slabs |-> IF s = 1 THEN Objs \ {0} ELSE {}]
    /\ nused = [s \in Slabs |-> IF s = 1 THEN 1 ELSE 0]
    /\ owner = [s \in Slabs |-> IF s = 1 THEN Meta ELSE Nil]
    /\ created = {Meta}
    /\ held = {<<1, 0>>}
    /\ status = "ok" /\ joined = FALSE

-----------------------------------------------------------------------------
(* Walking a list: the n-th slab from h, and the slabs that are reached.   *)
Nth(f, h) ==
    LET at[n \in 0 .. NSlabs] ==
            IF n = 0 THEN h ELSE IF at[n - 1] = Nil THEN Nil ELSE f[at[n - 1]]
    IN  at

Reach(f, h) ==
    LET at == Nth(f, h) IN {s \in Slabs : \E n \in 0 .. NSlabs : at[n] = s}

(* More steps than slabs and no NULL: the list is a loop.                  *)
Endless(f, h) == Nth(f, h)[NSlabs] # Nil

(* q is [next, head]: the pointers of one cache.                           *)
Push(q, k, s) == [next |-> [q.next EXCEPT ![s] = q.head[k]],
                  head |-> [q.head EXCEPT ![k] = s]]

(* The removal loops of memory_slab_free.                                  *)
UnlinkHead(q, k, s) == [q EXCEPT !.head[k] = q.next[s]]

Unlink(q, k, s) ==
    LET at  == Nth(q.next, q.head[k])
        pos == CHOOSE n \in 0 .. NSlabs : at[n] = s /\ \A j \in 0 .. n - 1 : at[j] # s
    IN  IF pos = 0 THEN [q EXCEPT !.head[k] = q.next[s]]
        ELSE [q EXCEPT !.next[at[pos - 1]] = q.next[s]]

-----------------------------------------------------------------------------
(* "Take one full slab to the partial": the slab's next pointer is left    *)
(* as it is, so the partial list continues into the full list.             *)
TakeFull(q) ==
    IF q.head["partial"] # Nil THEN q
    ELSE [q EXCEPT !.head = [@ EXCEPT !["partial"] = q.head["full"],
                                      !["full"] = q.next[q.head["full"]]]]

Joins(q) == q.head["partial"] = Nil /\ q.next[q.head["full"]] # Nil

(* A slab whose objects are all in use goes to the empty list.             *)
Retire(q, s, n) ==
    IF n = NObjs THEN Push([q EXCEPT !.head["partial"] = q.next[s]], "empty", s) ELSE q

FirstMarked(free) == CHOOSE i \in free : \A j \in free : i <= j

ObtainKeepingMark(mk, nu, s) ==
    [marks |-> mk,
     nused |-> [nu EXCEPT ![s] = IF mk[s] = {} THEN @ ELSE @ + 1],
     obj   |-> IF mk[s] = {} THEN {} ELSE {<<s, FirstMarked(mk[s])>>}]

(* The first object of slab s that is marked free, if there is one.        *)
Obtain(mk, nu, s) ==
    [marks |-> [mk EXCEPT ![s] = IF @ = {} THEN @ ELSE @ \ {FirstMarked(@)}],
     nused |-> [nu EXCEPT ![s] = IF mk[s] = {} THEN @ ELSE @ + 1],
     obj   |-> IF mk[s] = {} THEN {} ELSE {<<s, FirstMarked(mk[s])>>}]

(* The rest of _slab_alloc, once a list is not empty.                      *)
AllocFrom(q, mk, nu) ==
    LET p == TakeFull(q)
        s == p.head["partial"]
        o == Obtain(mk, nu, s)
    IN  [q |-> Retire(p, s, o.nused[s]), marks |-> o.marks, nused |-> o.nused, obj |-> o.obj]

(* A slab that _new_slab has made from fresh pages.                        *)
Fresh(s) == owner[s] = Nil /\ \A r \in 1 .. s - 1 : owner[r] # Nil

HasSlabs(c) == head[c]["partial"] # Nil \/ head[c]["full"] # Nil

Lists(c) == [next |-> next, head |-> head[c]]

(* memory_slab_alloc from the lists of the cache.                          *)
AllocListed(c) ==
    /\ status = "ok" /\ c \in created
    /\ HasSlabs(c)
    /\ LET r == AllocFrom(Lists(c), marks, nused)
       IN  /\ next' = r.q.next /\ head' = [head EXCEPT ![c] = r.q.head]
           /\ marks' = r.marks /\ nused' = r.nused
           /\ held' = held \cup r.obj
    /\ joined' = (joined \/ Joins(Lists(c)))
    /\ UNCHANGED <<owner, created, status>>

(* memory_slab_alloc with a new slab.                                      *)
AllocGrown(c, s) ==
    /\ status = "ok" /\ c \in created
    /\ ~HasSlabs(c) /\ Fresh(s)
    /\ LET q == [next |-> next, head |-> [head[c] EXCEPT !["full"] = s]]
           r == AllocFrom(q, [marks EXCEPT ![s] = Objs], nused)
       IN  /\ next' = r.q.next /\ head' = [head EXCEPT ![c] = r.q.head]
           /\ marks' = r.marks /\ nused' = r.nused
           /\ held' = held \cup r.obj
    /\ owner' = [owner EXCEPT ![s] = c]
    /\ UNCHANGED <<created, status, joined>>

(* NULL, or -1 from memory_slab_create_cache: no pages for a new slab, or  *)
(* a name that is not (or is already) in the tree.                         *)
AllocNull(c) ==
    /\ status = "ok"
    /\ c \in created => ~HasSlabs(c)
    /\ UNCHANGED vars

(* kmalloc: the smallest cache that is large enough.                       *)
Kmalloc(sz) ==
    \E c \in Kmallocs :
        /\ sz <= c /\ \A d \in Kmallocs : d < c => d < sz
        /\ AllocListed(c) \/ AllocNull(c) \/ \E s \in Slabs : AllocGrown(c, s)

-----------------------------------------------------------------------------
(* The object is marked free and the pointers become q.                    *)
Freed(c, s, i, q) ==
    /\ next' = q.next /\ head' = [head EXCEPT ![c] = q.head]
    /\ marks' = [marks EXCEPT ![s] = @ \cup {i}]
    /\ nused' = [nused EXCEPT ![s] = @ - 1]
    /\ held' = held \ {<<s, i>>}
    /\ UNCHANGED <<owner, created, status, joined>>

RefillNever(q, s) == q

(* A slab without objects in use goes from partial to full.                *)
Refill(q, s) == IF nused[s] = 1 THEN Push(Unlink(q, "partial", s), "full", s) ELSE q

InPartial(c, s) == s \in Reach(next, head[c]["partial"])
InEmpty(c, s) == s \in Reach(next, head[c]["empty"])

(* Callers give back only what they hold, and no descriptor of a cache.    *)
Freeable(c, s, i) ==
    status = "ok" /\ <<s, i>> \in held /\ owner[s] # Meta /\ c # Meta

(* memory_slab_free of an object of a slab on the partial list.            *)
FreePartial(c, s, i) ==
    /\ InPartial(c, s)
    /\ Freed(c, s, i, Refill(Lists(c), s))

(* ... on the empty list: the slab first becomes partial.                  *)
FreeEmpty(c, s, i) ==
    /\ ~InPartial(c, s) /\ ~Endless(next, head[c]["partial"])
    /\ InEmpty(c, s)
    /\ Freed(c, s, i, Refill(Push(Unlink(Lists(c), "empty", s), "partial", s), s))

(* ... on neither, or no such cache: the call returns -1.                  *)
NotFound(c, s) ==
    /\ ~InPartial(c, s) /\ ~Endless(next, head[c]["partial"])
    /\ ~InEmpty(c, s) /\ ~Endless(next, head[c]["empty"])

(* ... or the search goes round a loop for ever, holding the lock.         *)
FreeHangs(c, s) ==
    /\ ~InPartial(c, s)
    /\ \/ Endless(next, head[c]["partial"])
       \/ ~InEmpty(c, s) /\ Endless(next, head[c]["empty"])
    /\ status' = "hung"
    /\ UNCHANGED <<next, head, marks, nused, owner, created, held, joined>>

(* memory_slab_free, by its wrapper kmem_slab_free.  The callers name the  *)
(* cache of the object: FreeFindsSlab says that it is then always found.   *)
SlabFree(c, s, i) ==
    /\ Freeable(c, s, i)
    /\ FreePartial(c, s, i) \/ FreeEmpty(c, s, i) \/ FreeHangs(c, s)

(* kfree: memory_slab_free in the caches of kmalloc, the smallest first,   *)
(* until one finds the object.                                             *)
Kfree(s, i) ==
    \E c \in Kmallocs :
        /\ \A d \in Kmallocs : d < c => NotFound(d, s)
        /\ SlabFree(c, s, i)

-----------------------------------------------------------------------------
(* memory_slab_create_cache: a descriptor from Meta (with a new slab g if  *)
(* its lists are empty), then a first slab s for the full list.  That a    *)
(* slab on the lists of Meta has an object to give is part of ListsSound;  *)
(* its full list has no second slab, since its objects are never freed.    *)
MetaGrown(g) == IF HasSlabs(Meta) THEN g = Nil ELSE g \in Slabs /\ Fresh(g)

Descriptor(g) ==
    IF g = Nil THEN AllocFrom(Lists(Meta), marks, nused)
    ELSE AllocFrom([Lists(Meta) EXCEPT !.head["full"] = g], [marks EXCEPT ![g] = Objs], nused)

Own(g, c) == IF g = Nil THEN owner ELSE [owner EXCEPT ![g] = c]

CreateCache(c, g, s) ==
    LET r == Descriptor(g)
    IN  /\ status = "ok" /\ c \notin created
        /\ MetaGrown(g)
        /\ r.obj # {}
        /\ owner[s] = Nil /\ \A t \in 1 .. s - 1 : owner[t] # Nil \/ t = g
        /\ s # g
        /\ next' = r.q.next
        /\ head' = [head EXCEPT ![Meta] = r.q.head, ![c] = [NoLists EXCEPT !["full"] = s]]
        /\ marks' = [r.marks EXCEPT ![s] = Objs]
        /\ nused' = r.nused
        /\ owner' = [Own(g, Meta) EXCEPT ![s] = c]
        /\ held' = held \cup r.obj
        /\ created' = created \cup {c}
        /\ UNCHANGED <<status, joined>>

(* No pages for the first slab: its NULL pointer is used all the same.     *)
CreateFaults(c, g) ==
    /\ status = "ok" /\ c \notin created
    /\ MetaGrown(g)
    /\ Descriptor(g).obj # {}
    /\ status' = "fault"
    /\ UNCHANGED <<next, head, marks, nused, owner, created, held, joined>>

Next ==
    \/ \E c \in Caches :
          \/ AllocListed(c)
          \/ AllocNull(c)
          \/ \E s \in Slabs : AllocGrown(c, s)
          \/ \E g \in Slabs \cup {Nil}, s \in Slabs : CreateCache(c, g, s)
          \/ \E g \in Slabs \cup {Nil} : CreateFaults(c, g)
    \/ \E s \in Slabs, i \in Objs :
          Kfree(s, i) \/ SlabFree(owner[s], s, i)
    \/ \E sz \in Caches : Kmalloc(sz)

Spec == Init /\ [][Next]_vars

-----------------------------------------------------------------------------
(* Properties.                                                             *)

(* The marks, the counts and the objects in use agree: an object in use is *)
(* not marked free, so no allocation returns it again, and nused, by which *)
(* slabs move between the lists, counts the cleared marks.                 *)
MarksAgree ==
    \A s \in Slabs :
        /\ \A i \in Objs : <<s, i>> \in held => i \notin marks[s]
        /\ owner[s] # Nil => nused[s] = NObjs - Cardinality(marks[s])

ListOf(c, k) == Reach(next, head[c][k])

(* What a slab's count says about the list it is on.                       *)
Fits(s, k) == CASE k = "full" -> nused[s] = 0
                [] k = "partial" -> nused[s] \in 1 .. NObjs - 1
                [] k = "empty" -> nused[s] = NObjs

(* The lists of a cache end, no slab is on two of them, each holds slabs   *)
(* of its kind, and no search is without end, until the day a slab with a  *)
(* successor is taken from a full list (_slab_alloc leaves its pointer,    *)
(* and the lists have run together): what memory_slab_alloc and            *)
(* memory_slab_free make of them is right in every other case.  The cache  *)
(* of caches has an object to give whenever it has a slab to give it from. *)
ListsSound ==
    /\ ~joined =>
          /\ status # "hung"
          /\ \A c \in Caches, k \in Kinds :
                /\ ~Endless(next, head[c][k])
                /\ \A s \in ListOf(c, k) :
                      Fits(s, k) /\ \A j \in Kinds \ {k} : s \notin ListOf(c, j)
    /\ HasSlabs(Meta) => AllocFrom(Lists(Meta), marks, nused).obj # {}

(* Whatever happens to the lists, the slab of an object in use stays where *)
(* memory_slab_free looks for it: it is reached from the partial or the    *)
(* empty list of its cache, and from the lists of no other.                *)
FreeFindsSlab ==
    \A o \in held : LET s == o[1] IN
        /\ InPartial(owner[s], s) \/ InEmpty(owner[s], s)
        /\ \A c \in Caches \ {owner[s]}, k \in Kinds : s \notin ListOf(c, k)
=============================================================================
