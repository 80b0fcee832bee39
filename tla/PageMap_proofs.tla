--------------------------- MODULE PageMap_proofs ----------------------------
(***************************************************************************)
(* Proofs about PageMap for any number of pages, environments and page     *)
(* tables, for programs that make none of the calls of Misuse, and as long *)
(* as no page has more mappings than pp_ref can count (Roomy): without     *)
(* either the theorems are false; the runs page_unmap_zero and page_leak   *)
(* show it for the calls.                                                  *)
(*                                                                         *)
(* The invariant is stated of a memory m, so that it can be carried from   *)
(* one C function to the next within an action.                            *)
(***************************************************************************)
EXTENDS PageMap, FiniteSetTheorems, TLAPS

\* pp_ref can count one more pointer to each page than there are.
Roomy == \A p \in Page : Cardinality(Pointers(p)) + 1 < RefMod

PointersIn(m, p) == {s \in Slot : m.at[s] = p}

MemoryType ==
  [at : [Slot -> Page \cup {NoPage}], ref : [Page -> 0..(RefMod - 1)],
   free : SUBSET Page]

\* The slots of an environment form a tree.
Tree(m) ==
  /\ \A s \in TableSlot : m.at[s] # NoPage => m.at[<<s[1]>>] # NoPage
  /\ \A s \in EntrySlot : m.at[s] # NoPage => m.at[<<s[1], s[2]>>] # NoPage

\* No pointer of a program leads to page 0, and only page 0 has a reference
\* that is not a pointer.
Counted(m) ==
  /\ PointersIn(m, Zero) = {} /\ m.ref[Zero] = 1
  /\ \A p \in Page \ {Zero} : m.ref[p] = Cardinality(PointersIn(m, p))

\* A page is on the free list, or is one that the kernel has just taken (in
\* hold), or has a pointer.
Exact(m, hold) ==
  m.free = {p \in Page \ {Zero} : PointersIn(m, p) = {}} \ hold

\* Page directories and page tables have one pointer.
Own(m) ==
  \A s \in DirSlot \cup TableSlot, r \in Slot :
    m.at[s] # NoPage /\ m.at[r] = m.at[s] => r = s

Good(m, hold) ==
  m \in MemoryType /\ Tree(m) /\ Counted(m) /\ Exact(m, hold) /\ Own(m)

\* The inductive invariant.
IInv == Good(Memory, {}) /\ parent \in [Env -> Env \cup {NoEnv}]

-----------------------------------------------------------------------------
(* Counting pointers *)

LEMMA SlotsAreFinite ==
  ASSUME NEW m \in MemoryType, NEW p
  PROVE  /\ IsFiniteSet(PointersIn(m, p))
         /\ Cardinality(PointersIn(m, p)) \in Nat
         /\ Cardinality(PointersIn(m, p)) <= Cardinality(Slot)
         /\ Cardinality(Slot) \in Nat
<1>1. PointersIn(m, p) \subseteq Slot /\ IsFiniteSet(Slot)
  BY PageAssumption DEF PointersIn
<1>2. IsFiniteSet(PointersIn(m, p)) /\ Cardinality(PointersIn(m, p)) <= Cardinality(Slot)
  BY <1>1, FS_Subset
<1> QED BY <1>1, <1>2, FS_CardinalityType

\* Pointing an empty slot to p adds one pointer to p; emptying a slot removes
\* one from the page it pointed to.
LEMMA PointersAdd ==
  ASSUME NEW m \in MemoryType, NEW n, NEW s \in Slot, NEW p \in Page,
         m.at[s] # p, n.at = [m.at EXCEPT ![s] = p]
  PROVE  /\ PointersIn(n, p) = PointersIn(m, p) \cup {s}
         /\ Cardinality(PointersIn(n, p)) = Cardinality(PointersIn(m, p)) + 1
         /\ \A q : q # p /\ q # m.at[s] => PointersIn(n, q) = PointersIn(m, q)
<1>1. PointersIn(n, p) = PointersIn(m, p) \cup {s} /\ s \notin PointersIn(m, p)
  BY DEF PointersIn, MemoryType
<1>2. \A q : q # p /\ q # m.at[s] => PointersIn(n, q) = PointersIn(m, q)
  BY DEF PointersIn, MemoryType
<1>3. Cardinality(PointersIn(m, p) \cup {s}) = Cardinality(PointersIn(m, p)) + 1
  BY <1>1, SlotsAreFinite, FS_AddElement
<1> QED BY <1>1, <1>2, <1>3

LEMMA PointersDrop ==
  ASSUME NEW m \in MemoryType, NEW n, NEW s \in Slot, NEW p \in Page, NEW v,
         m.at[s] = p, v # p, n.at = [m.at EXCEPT ![s] = v]
  PROVE  /\ PointersIn(n, p) = PointersIn(m, p) \ {s}
         /\ Cardinality(PointersIn(n, p)) = Cardinality(PointersIn(m, p)) - 1
<1>1. PointersIn(n, p) = PointersIn(m, p) \ {s} /\ s \in PointersIn(m, p)
  BY DEF PointersIn, MemoryType
<1>2. Cardinality(PointersIn(m, p) \ {s}) = Cardinality(PointersIn(m, p)) - 1
  BY <1>1, SlotsAreFinite, FS_RemoveElement
<1> QED BY <1>1, <1>2

\* Slots of the three kinds are different.
LEMMA SlotsApart ==
  /\ EntrySlot \cap (DirSlot \cup TableSlot) = {}
  /\ DirSlot \cap TableSlot = {}
  /\ \A s \in EntrySlot : /\ s[1] \in Env
                         /\ <<s[1]>> \in DirSlot /\ <<s[1], s[2]>> \in TableSlot
  /\ \A s \in TableSlot : s[1] \in Env /\ <<s[1]>> \in DirSlot
BY DEF EntrySlot, DirSlot, TableSlot

-----------------------------------------------------------------------------
(* The functions of kern/pmap.c *)

\* What each of them does to the fields of a memory.
LEMMA AllocFields ==
  ASSUME NEW m \in MemoryType, NEW p
  PROVE  /\ PageAlloc(m, p) \in MemoryType
         /\ PageAlloc(m, p).at = m.at /\ PageAlloc(m, p).ref = m.ref
         /\ PageAlloc(m, p).free = m.free \ {p}
BY DEF PageAlloc, MemoryType

LEMMA PointFields ==
  ASSUME NEW m \in MemoryType, NEW s \in Slot, NEW v \in Page \cup {NoPage}
  PROVE  /\ [m EXCEPT !.at[s] = v] \in MemoryType
         /\ [m EXCEPT !.at[s] = v].at = [m.at EXCEPT ![s] = v]
         /\ [m EXCEPT !.at[s] = v].ref = m.ref
         /\ [m EXCEPT !.at[s] = v].free = m.free
BY DEF MemoryType

LEMMA IncrefFields ==
  ASSUME NEW m \in MemoryType, NEW p \in Page
  PROVE  /\ PageIncref(m, p) \in MemoryType
         /\ PageIncref(m, p).at = m.at
         /\ PageIncref(m, p).ref = [m.ref EXCEPT ![p] = (@ + 1) % RefMod]
         /\ PageIncref(m, p).free = m.free
<1>1. (m.ref[p] + 1) % RefMod \in 0..(RefMod - 1)
  BY PageAssumption DEF MemoryType
<1> QED BY <1>1 DEF PageIncref, MemoryType

LEMMA DecrefFields ==
  ASSUME NEW m \in MemoryType, NEW p \in Page, m.ref[p] # 0
  PROVE  /\ PageDecref(m, p) \in MemoryType
         /\ PageDecref(m, p).at = m.at
         /\ PageDecref(m, p).ref = [m.ref EXCEPT ![p] = @ - 1]
         /\ PageDecref(m, p).free = IF m.ref[p] = 1 THEN m.free \cup {p} ELSE m.free
<1>1. (m.ref[p] - 1) % RefMod = m.ref[p] - 1 /\ m.ref[p] - 1 \in 0..(RefMod - 1)
  BY PageAssumption DEF MemoryType
<1>2. m.ref[p] - 1 = 0 <=> m.ref[p] = 1
  BY PageAssumption DEF MemoryType
<1> DEFINE r == m.ref[p] - 1
           f == IF r = 0 THEN m.free \cup {p} ELSE m.free
<1>3. PageDecref(m, p) = [m EXCEPT !.ref[p] = r, !.free = f]
  BY <1>1 DEF PageDecref
<1>4. r \in 0..(RefMod - 1) /\ f \in SUBSET Page
  BY <1>1 DEF MemoryType
<1>5. f = IF m.ref[p] = 1 THEN m.free \cup {p} ELSE m.free
  BY <1>2
<1>6. [m.ref EXCEPT ![p] = r] = [m.ref EXCEPT ![p] = @ - 1]
  OBVIOUS
<1> HIDE DEF r, f
<1>7. /\ PageDecref(m, p) \in MemoryType /\ PageDecref(m, p).at = m.at
      /\ PageDecref(m, p).ref = [m.ref EXCEPT ![p] = r]
      /\ PageDecref(m, p).free = f
  BY <1>3, <1>4 DEF MemoryType
<1> QED BY <1>5, <1>6, <1>7

\* page_alloc: the page is held by its caller, with no pointer yet.
LEMMA AllocGood ==
  ASSUME NEW m, Good(m, {}), NEW p \in m.free
  PROVE  /\ Good(PageAlloc(m, p), {p})
         /\ p \in Page \ {Zero} /\ PointersIn(m, p) = {}
         /\ PointersIn(PageAlloc(m, p), p) = {}
         /\ PageAlloc(m, p).at = m.at
BY DEF Good, MemoryType, Tree, Counted, Exact, Own, PageAlloc, PointersIn

\* page_free of a page that was held gives back the memory it came from.
LEMMA GiveBack ==
  ASSUME NEW m, Good(m, {}), NEW p \in m.free
  PROVE  [PageAlloc(m, p) EXCEPT !.free = @ \cup {p}] = m
BY DEF Good, MemoryType, PageAlloc

\* A new page directory or page table: take a page and point an empty slot to
\* it, whose parent slot is present.
NewTable(m, q, s) == PageIncref([PageAlloc(m, q) EXCEPT !.at[s] = q], q)

LEMMA NewTableGood ==
  ASSUME NEW m, NEW hold, Good(m, hold), NEW q \in m.free,
         NEW s \in DirSlot \cup TableSlot, m.at[s] = NoPage,
         s \in TableSlot => m.at[<<s[1]>>] # NoPage
  PROVE  /\ Good(NewTable(m, q, s), hold)
         /\ NewTable(m, q, s).at = [m.at EXCEPT ![s] = q]
         /\ q # NoPage
         /\ \A p \in Page : p # q => PointersIn(NewTable(m, q, s), p) = PointersIn(m, p)
<1> DEFINE n == NewTable(m, q, s)
<1>1. /\ m \in MemoryType /\ q \in Page /\ q # Zero /\ q # NoPage /\ q \notin hold
      /\ s \in Slot /\ PointersIn(m, q) = {}
  BY PageAssumption DEF Good, MemoryType, Exact, Slot
<1>2. m.ref[q] = 0
  BY <1>1, FS_EmptySet DEF Good, Counted
<1>3. /\ n.at = [m.at EXCEPT ![s] = q] /\ n.free = m.free \ {q}
      /\ n.ref = [m.ref EXCEPT ![q] = (@ + 1) % RefMod]
      /\ n \in MemoryType
  <2> DEFINE m1 == PageAlloc(m, q)
             m2 == [m1 EXCEPT !.at[s] = q]
  <2>1. m1 \in MemoryType /\ m1.at = m.at /\ m1.ref = m.ref /\ m1.free = m.free \ {q}
    BY <1>1, AllocFields
  <2>2. /\ m2 \in MemoryType
        /\ m2.at = [m1.at EXCEPT ![s] = q] /\ m2.ref = m1.ref /\ m2.free = m1.free
    <3> HIDE DEF m1
    <3> QED BY <1>1, <2>1, PointFields
  <2>3. n = PageIncref(m2, q)
    BY DEF NewTable
  <2>4. /\ n \in MemoryType /\ n.at = m2.at /\ n.free = m2.free
        /\ n.ref = [m2.ref EXCEPT ![q] = (@ + 1) % RefMod]
    <3> HIDE DEF m2, n
    <3> QED BY <1>1, <2>2, <2>3, IncrefFields
  <2> HIDE DEF m1, m2, n
  <2> QED BY <2>1, <2>2, <2>4
<1>4. n.ref = [m.ref EXCEPT ![q] = 1]
  BY <1>2, <1>3, PageAssumption
<1> HIDE DEF n
<1>5. /\ PointersIn(n, q) = {s} /\ Cardinality(PointersIn(n, q)) = 1
      /\ \A p : p # q /\ p # NoPage => PointersIn(n, p) = PointersIn(m, p)
  <2>1. m.at[s] # q
    BY <1>1
  <2>2. /\ PointersIn(n, q) = PointersIn(m, q) \cup {s}
        /\ \A p : p # q /\ p # NoPage => PointersIn(n, p) = PointersIn(m, p)
    BY <1>1, <1>3, <2>1, PointersAdd
  <2> QED BY <1>1, <2>2, FS_Singleton
<1>6. Tree(n)
  BY <1>1, <1>3, SlotsApart DEF Good, Tree, MemoryType, Slot
<1>7. Counted(n)
  <2>1. PointersIn(n, Zero) = {} /\ n.ref[Zero] = 1
    BY <1>1, <1>3, <1>4, <1>5, PageAssumption DEF Good, Counted, MemoryType
  <2>2. n.ref[q] = Cardinality(PointersIn(n, q))
    BY <1>1, <1>3, <1>4, <1>5 DEF MemoryType
  <2>3. ASSUME NEW p \in Page \ {Zero}, p # q
        PROVE  n.ref[p] = Cardinality(PointersIn(n, p))
    <3>1. PointersIn(n, p) = PointersIn(m, p) /\ n.ref[p] = m.ref[p]
      BY <1>1, <1>3, <1>4, <1>5, <2>3, PageAssumption DEF MemoryType
    <3> QED BY <3>1 DEF Good, Counted
  <2> QED BY <2>1, <2>2, <2>3 DEF Counted
<1>8. Exact(n, hold)
  BY <1>1, <1>3, <1>4, <1>5, PageAssumption DEF Good, Exact
<1>9. Own(n)
  <2> SUFFICES ASSUME NEW x \in DirSlot \cup TableSlot, NEW r \in Slot,
                      n.at[x] # NoPage, n.at[r] = n.at[x]
               PROVE  r = x
    BY DEF Own
  <2>1. x \in Slot
    BY DEF Slot
  <2>2. CASE x = s
    BY <1>1, <1>3, <1>4, <1>5, <2>2 DEF PointersIn, MemoryType
  <2>3. CASE x # s
    <3>1. n.at[x] = m.at[x] /\ n.at[s] = q /\ m.at[x] # q
      BY <1>1, <1>3, <2>1, <2>3 DEF PointersIn, MemoryType
    <3>2. r # s /\ n.at[r] = m.at[r]
      BY <1>1, <1>3, <3>1 DEF MemoryType
    <3> QED BY <3>1, <3>2 DEF Good, Own
  <2> QED BY <2>2, <2>3
<1> QED BY <1>1, <1>3, <1>4, <1>5, <1>6, <1>7, <1>8, <1>9, PageAssumption DEF Good, n

\* pgdir_walk: the entry has a page table afterwards, other pointers stay.
LEMMA WalkGood ==
  ASSUME NEW m, NEW hold, Good(m, hold), NEW s \in EntrySlot,
         m.at[<<s[1]>>] # NoPage, NEW n \in PgdirWalk(m, s)
  PROVE  /\ Good(n, hold) /\ n.at[<<s[1], s[2]>>] # NoPage
         /\ \A p \in Page : p \notin m.free => PointersIn(n, p) = PointersIn(m, p)
<1> DEFINE dir == <<s[1], s[2]>>
<1>1. dir \in TableSlot /\ dir[1] = s[1]
  BY SlotsApart
<1>2. CASE m.at[dir] # NoPage
  BY <1>2 DEF PgdirWalk
<1>3. CASE m.at[dir] = NoPage
  <2>1. PICK q \in m.free : n = NewTable(m, q, dir)
    BY <1>3 DEF PgdirWalk, NewTable
  <2>2. /\ Good(n, hold) /\ n.at = [m.at EXCEPT ![dir] = q] /\ q # NoPage
        /\ \A p \in Page : p # q => PointersIn(n, p) = PointersIn(m, p)
    BY <1>1, <1>3, <2>1, NewTableGood
  <2>3. n.at[dir] # NoPage
    BY <1>1, <2>2 DEF Good, MemoryType, Slot
  <2> QED BY <2>1, <2>2, <2>3
<1> QED BY <1>2, <1>3

\* page_remove of an entry that maps a page.
LEMMA RemoveGood ==
  ASSUME NEW m, NEW hold, Good(m, hold), NEW s \in EntrySlot,
         m.at[s] # NoPage, m.at[s] \notin hold
  PROVE  /\ Good(PageRemove(m, s), hold)
         /\ PageRemove(m, s).at = [m.at EXCEPT ![s] = NoPage]
         /\ \A p : p # m.at[s] /\ p # NoPage =>
              PointersIn(PageRemove(m, s), p) = PointersIn(m, p)
         /\ PageRemove(m, s).ref = [m.ref EXCEPT ![m.at[s]] = @ - 1]
         /\ PageRemove(m, s).free =
              IF m.ref[m.at[s]] = 1 THEN m.free \cup {m.at[s]} ELSE m.free
<1> DEFINE n == PageRemove(m, s)
           o == m.at[s]
           dir == <<s[1], s[2]>>
<1>1. /\ m \in MemoryType /\ s \in Slot /\ o \in Page /\ NoPage \notin Page
      /\ s \in PointersIn(m, o) /\ m.at[dir] # NoPage
  BY PageAssumption, SlotsApart DEF Good, MemoryType, Slot, Tree, PointersIn
<1>2. o # Zero /\ m.ref[o] = Cardinality(PointersIn(m, o))
  BY <1>1 DEF Good, Counted
<1>3. m.ref[o] \in Nat /\ m.ref[o] # 0
  <2>1. Cardinality(PointersIn(m, o)) \in Nat /\ Cardinality(PointersIn(m, o)) # 0
    BY <1>1, SlotsAreFinite, FS_EmptySet
  <2> QED BY <1>2, <2>1
<1>4. /\ n \in MemoryType
      /\ n.at = [m.at EXCEPT ![s] = NoPage]
      /\ n.ref = [m.ref EXCEPT ![o] = @ - 1]
      /\ n.free = IF m.ref[o] = 1 THEN m.free \cup {o} ELSE m.free
  <2> DEFINE d == PageDecref(m, o)
  <2>1. n = [d EXCEPT !.at[s] = NoPage]
    BY <1>1 DEF PageRemove, PageLookup
  <2>2. /\ d \in MemoryType /\ d.at = m.at
        /\ d.ref = [m.ref EXCEPT ![o] = @ - 1]
        /\ d.free = IF m.ref[o] = 1 THEN m.free \cup {o} ELSE m.free
    BY <1>1, <1>3, DecrefFields
  <2> HIDE DEF d, n
  <2>3. /\ n \in MemoryType /\ n.at = [d.at EXCEPT ![s] = NoPage]
        /\ n.ref = d.ref /\ n.free = d.free
    BY <1>1, <2>1, <2>2, PointFields
  <2> QED BY <2>2, <2>3
<1> HIDE DEF n
<1>5. /\ PointersIn(n, o) = PointersIn(m, o) \ {s}
      /\ Cardinality(PointersIn(n, o)) = Cardinality(PointersIn(m, o)) - 1
      /\ \A p : p # o /\ p # NoPage => PointersIn(n, p) = PointersIn(m, p)
  <2>1. \A p : p # o /\ p # NoPage => PointersIn(n, p) = PointersIn(m, p)
    BY <1>1, <1>4 DEF PointersIn, MemoryType
  <2> QED BY <1>1, <1>4, <2>1, PointersDrop
<1>6. Tree(n)
  <2>1. \A x \in DirSlot \cup TableSlot : n.at[x] = m.at[x]
    BY <1>1, <1>4, SlotsApart DEF MemoryType, Slot
  <2>2. \A x \in EntrySlot : n.at[x] # NoPage => m.at[x] # NoPage
    BY <1>1, <1>4 DEF MemoryType, Slot
  <2> QED BY <2>1, <2>2, SlotsApart DEF Good, Tree
<1>7. Counted(n)
  <2>1. PointersIn(n, Zero) = {} /\ n.ref[Zero] = 1
    BY <1>1, <1>2, <1>4, <1>5, PageAssumption DEF Good, Counted, MemoryType
  <2>2. n.ref[o] = Cardinality(PointersIn(n, o))
    BY <1>1, <1>2, <1>4, <1>5 DEF MemoryType
  <2>3. ASSUME NEW p \in Page \ {Zero}, p # o
        PROVE  n.ref[p] = Cardinality(PointersIn(n, p))
    <3>1. PointersIn(n, p) = PointersIn(m, p) /\ n.ref[p] = m.ref[p]
      BY <1>1, <1>4, <1>5, <2>3 DEF MemoryType
    <3> QED BY <3>1 DEF Good, Counted
  <2> QED BY <2>1, <2>2, <2>3 DEF Counted
<1>8. Exact(n, hold)
  <2>1. PointersIn(n, o) = {} <=> m.ref[o] = 1
    <3>1. PointersIn(n, o) = {} <=> Cardinality(PointersIn(n, o)) = 0
      BY <1>4, SlotsAreFinite, FS_EmptySet
    <3> QED BY <1>2, <1>3, <1>5, <3>1
  <2>2. m.free = {p \in Page \ {Zero} : PointersIn(m, p) = {}} \ hold
    BY DEF Good, Exact
  <2>3. \A p \in Page : p # o => PointersIn(n, p) = PointersIn(m, p)
    BY <1>1, <1>5
  <2> QED BY <1>1, <1>2, <1>4, <2>1, <2>2, <2>3 DEF Exact
<1>9. Own(n)
  BY <1>1, <1>4, SlotsApart DEF Good, Own, MemoryType, Slot
<1> QED BY <1>4, <1>5, <1>6, <1>7, <1>8, <1>9 DEF Good, n

\* Pointing an empty entry to a page and counting it: the page is held by the
\* kernel, or is already mapped by another entry.
Mappable(m, hold, p) ==
  /\ p \in Page \ {Zero}
  /\ \/ hold = {p} /\ PointersIn(m, p) = {}
     \/ hold = {} /\ \E r \in EntrySlot : m.at[r] = p

HasTable(m, s) == m.at[<<s[1], s[2]>>] # NoPage

\* n is m with the entry s pointing to p, counted.
Maps(m, n, s, p) ==
  /\ n \in MemoryType /\ n.free = m.free
  /\ n.at = [m.at EXCEPT ![s] = p] /\ n.ref = [m.ref EXCEPT ![p] = @ + 1]

LEMMA MapGood ==
  ASSUME NEW m, NEW hold, Good(m, hold), NEW s \in EntrySlot,
         HasTable(m, s), m.at[s] = NoPage,
         NEW p, Mappable(m, hold, p), NEW n, Maps(m, n, s, p)
  PROVE  Good(n, {})
<1> USE DEF HasTable, Maps
<1>1. /\ m \in MemoryType /\ s \in Slot /\ p \in Page \ {Zero} /\ NoPage \notin Page
      /\ m.ref[p] = Cardinality(PointersIn(m, p))
  BY PageAssumption DEF Good, Slot, Mappable, Counted
<1>2. /\ PointersIn(n, p) = PointersIn(m, p) \cup {s}
      /\ Cardinality(PointersIn(n, p)) = Cardinality(PointersIn(m, p)) + 1
      /\ \A q \in Page : q # p => PointersIn(n, q) = PointersIn(m, q)
  BY <1>1, PointersAdd
<1>3. Tree(n)
  BY <1>1, SlotsApart DEF Good, Tree, MemoryType, Slot
<1>4. Counted(n)
  <2>1. PointersIn(n, Zero) = {} /\ n.ref[Zero] = 1
    BY <1>1, <1>2, PageAssumption DEF Good, Counted, MemoryType
  <2>2. n.ref[p] = Cardinality(PointersIn(n, p))
    BY <1>1, <1>2 DEF MemoryType
  <2>3. ASSUME NEW q \in Page \ {Zero}, q # p
        PROVE  n.ref[q] = Cardinality(PointersIn(n, q))
    <3>1. PointersIn(n, q) = PointersIn(m, q) /\ n.ref[q] = m.ref[q]
      BY <1>1, <1>2, <2>3 DEF MemoryType
    <3> QED BY <3>1 DEF Good, Counted
  <2> QED BY <2>1, <2>2, <2>3 DEF Counted
<1>5. Exact(n, {})
  <2>1. m.free = {q \in Page \ {Zero} : PointersIn(m, q) = {}} \ hold
    BY DEF Good, Exact
  <2>2. CASE hold = {p}
    BY <1>1, <1>2, <2>1, <2>2 DEF Exact
  <2>3. CASE hold = {} /\ \E r \in EntrySlot : m.at[r] = p
    <3>1. PointersIn(m, p) # {}
      BY <2>3 DEF PointersIn, Slot
    <3> QED BY <1>1, <1>2, <2>1, <2>3, <3>1 DEF Exact
  <2> QED BY <2>2, <2>3 DEF Mappable
<1>6. Own(n)
  <2>1. \A x \in DirSlot \cup TableSlot : m.at[x] # p
    BY <1>1, SlotsApart DEF Good, Own, Mappable, PointersIn, Slot
  <2> QED BY <1>1, <2>1, SlotsApart DEF Good, Own, MemoryType, Slot
<1> QED BY <1>3, <1>4, <1>5, <1>6 DEF Good

\* page_insert, once the page table is there.
LEMMA SetEntryGood ==
  ASSUME NEW m, NEW hold, Good(m, hold), NEW s \in EntrySlot,
         HasTable(m, s), NEW p, Mappable(m, hold, p),
         Cardinality(PointersIn(m, p)) + 1 < RefMod
  PROVE  Good(SetEntry(m, p, s), {})
<1> DEFINE m1 == PageIncref(m, p)
           n == SetEntry(m, p, s)
           o == m.at[s]
           x == PageRemove(m, s)
<1>1. /\ m \in MemoryType /\ s \in Slot /\ p \in Page \ {Zero} /\ NoPage \notin Page
      /\ m.ref[p] = Cardinality(PointersIn(m, p)) /\ o \in Page \cup {NoPage}
  BY PageAssumption DEF Good, Slot, Mappable, Counted, MemoryType
\* pp_ref does not wrap.
<1>2. (m.ref[p] + 1) % RefMod = m.ref[p] + 1
  BY <1>1, SlotsAreFinite, PageAssumption
<1>3. /\ m1 \in MemoryType /\ m1.at = m.at /\ m1.free = m.free
      /\ m1.ref = [m.ref EXCEPT ![p] = @ + 1]
  BY <1>1, <1>2, IncrefFields
<1>4. CASE o = NoPage
  <2>1. n = [m1 EXCEPT !.at[s] = p]
    BY <1>3, <1>4 DEF SetEntry
  <2>2. /\ n \in MemoryType /\ n.at = [m1.at EXCEPT ![s] = p]
        /\ n.ref = m1.ref /\ n.free = m1.free
    <3> HIDE DEF m1, n
    <3> QED BY <1>1, <1>3, <2>1, PointFields
  <2> HIDE DEF m1, n
  <2>3. Maps(m, n, s, p)
    BY <1>3, <2>2 DEF Maps
  <2>4. Good(n, {})
    BY <1>4, <2>3, MapGood
  <2> QED BY <2>4 DEF n
<1>5. CASE o # NoPage
  <2> DEFINE d == PageDecref(m1, o)
  <2>1. n = [[d EXCEPT !.at[s] = NoPage] EXCEPT !.at[s] = p]
    BY <1>3, <1>5 DEF SetEntry, PageRemove, PageLookup, HasTable
  <2>2. /\ o \in Page /\ o # Zero /\ s \in PointersIn(m, o)
        /\ m.ref[o] = Cardinality(PointersIn(m, o))
    BY <1>1, <1>5 DEF Good, Counted, PointersIn
  <2>3. m.ref[o] \in Nat /\ m.ref[o] # 0
    <3>1. Cardinality(PointersIn(m, o)) \in Nat /\ Cardinality(PointersIn(m, o)) # 0
      BY <1>1, <2>2, SlotsAreFinite, FS_EmptySet
    <3> QED BY <2>2, <3>1
  <2>4. m1.ref[o] # 0
    BY <1>1, <1>3, <2>2, <2>3 DEF MemoryType
  <2>5. /\ d \in MemoryType /\ d.at = m.at
        /\ d.ref = [m1.ref EXCEPT ![o] = @ - 1]
        /\ d.free = IF m1.ref[o] = 1 THEN m.free \cup {o} ELSE m.free
    <3> HIDE DEF m1, o
    <3>1. /\ d \in MemoryType /\ d.at = m1.at
          /\ d.ref = [m1.ref EXCEPT ![o] = @ - 1]
          /\ d.free = IF m1.ref[o] = 1 THEN m1.free \cup {o} ELSE m1.free
      BY <1>3, <2>2, <2>4, DecrefFields
    <3> HIDE DEF d
    <3> QED BY <1>3, <3>1
  <2>6. /\ n \in MemoryType /\ n.at = [m.at EXCEPT ![s] = p]
        /\ n.ref = d.ref /\ n.free = d.free
    <3> DEFINE e == [d EXCEPT !.at[s] = NoPage]
    <3>1. /\ e \in MemoryType /\ e.at = [m.at EXCEPT ![s] = NoPage]
          /\ e.ref = d.ref /\ e.free = d.free
      <4> HIDE DEF d
      <4> QED BY <1>1, <2>5, PointFields
    <3>2. n = [e EXCEPT !.at[s] = p]
      BY <2>1
    <3> HIDE DEF d, e, n
    <3>3. /\ n \in MemoryType /\ n.at = [e.at EXCEPT ![s] = p]
          /\ n.ref = e.ref /\ n.free = e.free
      BY <1>1, <3>1, <3>2, PointFields
    <3> QED BY <1>1, <3>1, <3>3 DEF MemoryType
  <2> HIDE DEF m1, d, n
  \* The page that is mapped already: nothing changes.
  <2>7. CASE o = p
    <3>1. n.at = m.at /\ n.ref = m.ref
      BY <1>1, <1>3, <2>2, <2>3, <2>5, <2>6, <2>7 DEF MemoryType
    <3>2. n.free = m.free
      BY <1>1, <1>3, <2>2, <2>3, <2>5, <2>6, <2>7 DEF MemoryType
    <3>3. hold = {}
      BY <2>2, <2>7 DEF Mappable
    <3>4. Good(n, {})
      BY <3>1, <3>2, <3>3, <2>6
        DEF Good, Tree, Counted, Exact, Own, PointersIn
    <3> QED BY <3>4 DEF n
  \* Another page: as removing it and then mapping p.
  <2>8. CASE o # p
    <3>1. o \notin hold
      BY <2>2, <2>8 DEF Mappable
    <3>2. /\ Good(x, hold) /\ x.at = [m.at EXCEPT ![s] = NoPage]
          /\ PointersIn(x, p) = PointersIn(m, p)
          /\ x.ref = [m.ref EXCEPT ![o] = @ - 1]
          /\ x.free = IF m.ref[o] = 1 THEN m.free \cup {o} ELSE m.free
      <4>1. p # NoPage /\ p # m.at[s]
        BY <1>1, <2>8
      <4> QED BY <1>5, <3>1, <4>1, RemoveGood
    <3> HIDE DEF x
    <3>3. n.at = [x.at EXCEPT ![s] = p] /\ n.free = x.free
      BY <1>1, <1>3, <2>2, <2>5, <2>6, <2>8, <3>2 DEF MemoryType
    <3>4. n.ref = [x.ref EXCEPT ![p] = @ + 1]
      BY <1>1, <1>3, <2>2, <2>5, <2>6, <2>8, <3>2 DEF MemoryType
    <3>5. x.at[s] = NoPage /\ HasTable(x, s)
      <4>1. <<s[1], s[2]>> \in TableSlot /\ <<s[1], s[2]>> # s
        BY SlotsApart
      <4> QED BY <1>1, <3>2, <4>1 DEF MemoryType, Slot, HasTable
    <3>6. Mappable(x, hold, p)
      BY <1>1, <2>8, <3>2 DEF Mappable, MemoryType, Slot
    <3>7. Maps(x, n, s, p)
      BY <2>6, <3>3, <3>4 DEF Maps
    <3>8. Good(n, {})
      BY <3>2, <3>5, <3>6, <3>7, MapGood
    <3> QED BY <3>8 DEF n
  <2> QED BY <2>7, <2>8
<1> QED BY <1>4, <1>5

-----------------------------------------------------------------------------
(* The actions *)

LEMMA MemoryFields ==
  Memory.at = at /\ Memory.ref = ref /\ Memory.free = free
BY DEF Memory

LEMMA BecomesGood ==
  ASSUME NEW n, Good(n, {}), Becomes(n)
  PROVE  Good(Memory', {})
<1>1. Memory' = [at |-> n.at, ref |-> n.ref, free |-> n.free]
  BY DEF Memory, Becomes
<1>2. n = [at |-> n.at, ref |-> n.ref, free |-> n.free]
  BY DEF Good, MemoryType
<1> QED BY <1>1, <1>2

LEMMA InitIInv == Init => IInv
<1> SUFFICES ASSUME Init PROVE IInv
  OBVIOUS
<1>1. PICK dir, table, page \in Page \ {Zero}, d \in PDX, t \in PTX :
        /\ dir # table /\ table # page /\ page # dir
        /\ at = [s \in Slot |-> CASE s = <<First>> -> dir
                                  [] s = <<First, d>> -> table
                                  [] s = <<First, d, t>> -> page
                                  [] OTHER -> NoPage]
        /\ ref = [p \in Page |-> IF p \in {dir, table, page, Zero} THEN 1 ELSE 0]
        /\ free = Page \ {dir, table, page, Zero}
        /\ parent = [e \in Env |-> NoEnv]
  BY DEF Init
<1> DEFINE sd == <<First>>
           st == <<First, d>>
           sp == <<First, d, t>>
<1>2. /\ sd \in DirSlot /\ st \in TableSlot /\ sp \in EntrySlot
      /\ sd # st /\ st # sp /\ sd # sp
  BY PageAssumption DEF DirSlot, TableSlot, EntrySlot
<1>3. /\ at \in [Slot -> Page \cup {NoPage}]
      /\ at[sd] = dir /\ at[st] = table /\ at[sp] = page
      /\ \A s \in Slot : s # sd /\ s # st /\ s # sp => at[s] = NoPage
  BY <1>1, <1>2, PageAssumption DEF Slot
<1>4. Memory \in MemoryType
  <2>1. ref \in [Page -> 0..(RefMod - 1)]
    BY <1>1, PageAssumption
  <2> QED BY <1>1, <1>3, <2>1 DEF Memory, MemoryType
<1>5. /\ PointersIn(Memory, dir) = {sd} /\ PointersIn(Memory, table) = {st}
      /\ PointersIn(Memory, page) = {sp}
      /\ \A p \in Page \ {dir, table, page} : PointersIn(Memory, p) = {}
  BY <1>1, <1>2, <1>3, PageAssumption, MemoryFields DEF PointersIn, Slot
<1>6. Counted(Memory)
  <2>1. \A p \in Page \ {Zero} : ref[p] = Cardinality(PointersIn(Memory, p))
    <3> SUFFICES ASSUME NEW p \in Page \ {Zero}
                 PROVE  ref[p] = Cardinality(PointersIn(Memory, p))
      OBVIOUS
    <3>1. CASE p \in {dir, table, page}
      <4>1. Cardinality(PointersIn(Memory, p)) = 1
        BY <1>5, <3>1, FS_Singleton
      <4> QED BY <1>1, <3>1, <4>1
    <3>2. CASE p \notin {dir, table, page}
      BY <1>1, <1>5, <3>2, FS_EmptySet
    <3> QED BY <3>1, <3>2
  <2> QED BY <1>1, <1>5, <2>1, PageAssumption, MemoryFields DEF Counted
<1>7. Exact(Memory, {})
  <2>1. \A p \in Page : PointersIn(Memory, p) = {} <=> p \notin {dir, table, page}
    BY <1>5
  <2> QED BY <1>1, <2>1, MemoryFields DEF Exact
<1>8. Tree(Memory)
  <2>1. /\ \A s \in TableSlot : at[s] # NoPage => s = st
        /\ \A s \in EntrySlot : at[s] # NoPage => s = sp
    BY <1>2, <1>3, SlotsApart DEF Slot
  <2>2. <<st[1]>> = sd /\ <<sp[1], sp[2]>> = st /\ at[sd] # NoPage /\ at[st] # NoPage
    BY <1>3, PageAssumption
  <2> QED BY <2>1, <2>2, MemoryFields DEF Tree
<1>9. Own(Memory)
  BY <1>1, <1>2, <1>3, MemoryFields DEF Own, Slot
<1> QED BY <1>1, <1>4, <1>6, <1>7, <1>8, <1>9 DEF IInv, Good

\* page_insert of a page that may be mapped, with the page table made on demand.
LEMMA InsertGood ==
  ASSUME NEW m, NEW hold, Good(m, hold), NEW s \in EntrySlot,
         m.at[<<s[1]>>] # NoPage, NEW p, Mappable(m, hold, p),
         p \notin m.free, Cardinality(PointersIn(m, p)) + 1 < RefMod,
         NEW n \in PageInsert(m, p, s)
  PROVE  Good(n, {})
<1>1. PICK w \in PgdirWalk(m, s) : n = SetEntry(w, p, s)
  BY DEF PageInsert
<1>2. /\ Good(w, hold) /\ HasTable(w, s)
      /\ PointersIn(w, p) = PointersIn(m, p)
  BY WalkGood DEF HasTable, Mappable
<1>3. Mappable(w, hold, p)
  BY <1>2 DEF Mappable, PointersIn, Slot
<1> QED BY <1>1, <1>2, <1>3, SetEntryGood

\* env_free
LEMMA EnvFreeGood ==
  ASSUME IInv, NEW e \in Env, EnvFree(e)
  PROVE  IInv'
<1> DEFINE m == Memory
           n == Memory'
           Uses(p) == {s \in SlotsOf(e) : at[s] = p}
<1>1. /\ at \in [Slot -> Page \cup {NoPage}] /\ ref \in [Page -> 0..(RefMod - 1)]
      /\ free \subseteq Page
  BY DEF IInv, Good, MemoryType, Memory
<1>2. /\ at' = [s \in Slot |-> IF s \in SlotsOf(e) THEN NoPage ELSE at[s]]
      /\ ref' = [p \in Page |-> (ref[p] - Cardinality(Uses(p))) % RefMod]
      /\ free' = free \cup {p \in Page : ref[p] \in 1..Cardinality(Uses(p))}
  BY DEF EnvFree
<1>3. n.at = at' /\ n.ref = ref' /\ n.free = free'
  BY DEF Memory
\* The slots of e that point to p are pointers to p; the others stay.
<1>4. ASSUME NEW p \in Page
      PROVE  /\ PointersIn(n, p) = PointersIn(m, p) \ Uses(p)
             /\ Uses(p) \subseteq PointersIn(m, p)
             /\ IsFiniteSet(PointersIn(m, p)) /\ IsFiniteSet(Uses(p))
             /\ Cardinality(PointersIn(m, p)) \in Nat /\ Cardinality(Uses(p)) \in Nat
             /\ Cardinality(PointersIn(n, p)) =
                  Cardinality(PointersIn(m, p)) - Cardinality(Uses(p))
             /\ Cardinality(PointersIn(n, p)) \in Nat
             /\ PointersIn(n, p) = {} <=> Cardinality(PointersIn(n, p)) = 0
             /\ Uses(p) = {} <=> Cardinality(Uses(p)) = 0
  <2>1. PointersIn(n, p) = PointersIn(m, p) \ Uses(p)
    BY <1>2, <1>3, PageAssumption, MemoryFields DEF PointersIn, SlotsOf
  <2>2. Uses(p) \subseteq PointersIn(m, p)
    BY MemoryFields DEF PointersIn, SlotsOf
  <2>3. IsFiniteSet(PointersIn(m, p)) /\ Cardinality(PointersIn(m, p)) \in Nat
    BY SlotsAreFinite DEF IInv, Good
  <2>4. IsFiniteSet(Uses(p)) /\ Cardinality(Uses(p)) \in Nat
    <3> HIDE DEF m, Uses
    <3> QED BY <2>2, <2>3, FS_Subset, FS_CardinalityType
  <2>5. /\ IsFiniteSet(PointersIn(m, p) \ Uses(p))
        /\ Cardinality(PointersIn(m, p) \ Uses(p)) =
             Cardinality(PointersIn(m, p)) - Cardinality(PointersIn(m, p) \cap Uses(p))
    <3> HIDE DEF m, Uses
    <3> QED BY <2>3, FS_Difference
  <2>6. PointersIn(m, p) \cap Uses(p) = Uses(p)
    BY <2>2
  <2>7. Cardinality(PointersIn(n, p)) \in Nat
    BY <2>1, <2>5, FS_CardinalityType
  <2>8. PointersIn(n, p) = {} <=> Cardinality(PointersIn(n, p)) = 0
    BY <2>1, <2>5, FS_EmptySet
  <2>9. Uses(p) = {} <=> Cardinality(Uses(p)) = 0
    <3> HIDE DEF Uses
    <3> QED BY <2>4, FS_EmptySet
  <2> HIDE DEF m, n, Uses
  <2> QED BY <2>1, <2>2, <2>3, <2>4, <2>5, <2>6, <2>7, <2>8, <2>9
<1> HIDE DEF Uses
<1>5. /\ PointersIn(m, Zero) = {} /\ ref[Zero] = 1
      /\ \A p \in Page \ {Zero} : ref[p] = Cardinality(PointersIn(m, p))
      /\ free = {p \in Page \ {Zero} : PointersIn(m, p) = {}}
  BY MemoryFields DEF IInv, Good, Counted, Exact
<1>6. Uses(Zero) = {} /\ PointersIn(n, Zero) = {} /\ Cardinality(Uses(Zero)) = 0
  BY <1>4, <1>5, PageAssumption
<1>7. ASSUME NEW p \in Page \ {Zero}
      PROVE  /\ ref'[p] = Cardinality(PointersIn(n, p))
             /\ p \in free' <=> PointersIn(n, p) = {}
  <2> HIDE DEF m, n
  <2> DEFINE a == Cardinality(PointersIn(m, p))
             b == Cardinality(Uses(p))
             c == Cardinality(PointersIn(n, p))
  <2>1. ref[p] = a /\ a \in Nat /\ b \in Nat /\ c \in Nat /\ c = a - b
    BY <1>4, <1>5
  <2>2. ref[p] < RefMod
    BY <1>1, PageAssumption
  <2>3. (ref[p] - b) % RefMod = c
    <3> HIDE DEF a, b, c
    <3>1. c \in 0..(RefMod - 1)
      BY <2>1, <2>2, PageAssumption
    <3> QED BY <2>1, <3>1, PageAssumption
  <2>4. ref'[p] = c
    BY <1>2, <2>3
  <2>5. PointersIn(m, p) = {} <=> a = 0
    <3>1. IsFiniteSet(PointersIn(m, p))
      BY <1>4
    <3> QED BY <3>1, FS_EmptySet
  <2>6. p \in free' <=> (a = 0 \/ a \in 1..b)
    BY <1>2, <1>5, <2>1, <2>5
  <2>7. (a = 0 \/ a \in 1..b) <=> c = 0
    <3> HIDE DEF a, b, c
    <3> QED BY <2>1
  <2>8. PointersIn(n, p) = {} <=> c = 0
    BY <1>4
  <2> QED BY <2>4, <2>6, <2>7, <2>8
<1>8. ref'[Zero] = 1 /\ Zero \notin free'
  <2>1. (ref[Zero] - Cardinality(Uses(Zero))) % RefMod = 1
    BY <1>5, <1>6, PageAssumption
  <2>2. ref[Zero] \notin 1..Cardinality(Uses(Zero)) /\ Zero \notin free
    BY <1>5, <1>6
  <2> QED BY <1>2, <2>1, <2>2, PageAssumption
<1>9. Counted(n)
  BY <1>3, <1>6, <1>7, <1>8 DEF Counted
<1>10. Exact(n, {})
  <2>1. free' \subseteq Page
    BY <1>1, <1>2
  <2> QED BY <1>3, <1>7, <1>8, <2>1 DEF Exact
<1>11. n \in MemoryType
  <2>1. at' \in [Slot -> Page \cup {NoPage}]
    BY <1>1, <1>2
  <2>2. ref' \in [Page -> 0..(RefMod - 1)]
    <3>1. \A p \in Page : (ref[p] - Cardinality(Uses(p))) % RefMod \in 0..(RefMod - 1)
      BY <1>1, <1>4, PageAssumption
    <3> QED BY <1>2, <3>1
  <2>3. free' \subseteq Page
    BY <1>1, <1>2
  <2> QED BY <2>1, <2>2, <2>3 DEF Memory, MemoryType
<1>12. Tree(n)
  <2>1. Tree(m)
    BY DEF IInv, Good
  <2>2. \A s \in Slot : s[1] # e => at'[s] = at[s]
    BY <1>2 DEF SlotsOf
  <2>3. \A s \in Slot : at'[s] # NoPage => s[1] # e /\ at[s] # NoPage
    BY <1>2 DEF SlotsOf
  <2>4. \A s \in TableSlot : <<s[1]>> \in Slot /\ s \in Slot
    BY SlotsApart DEF Slot
  <2>5. \A s \in EntrySlot : <<s[1], s[2]>> \in Slot /\ s \in Slot
    BY SlotsApart DEF Slot
  <2> QED BY <1>3, <2>1, <2>2, <2>3, <2>4, <2>5, MemoryFields DEF Tree
<1>13. Own(n)
  <2>1. \A s \in Slot : at'[s] # NoPage => at'[s] = at[s]
    BY <1>2
  <2>2. Own(m)
    BY DEF IInv, Good
  <2> QED BY <1>3, <2>1, <2>2, MemoryFields DEF Own, Slot
<1>14. parent' \in [Env -> Env \cup {NoEnv}]
  BY DEF IInv, EnvFree
<1> QED BY <1>9, <1>10, <1>11, <1>12, <1>13, <1>14 DEF IInv, Good

\* The end of sys_page_map and of a page transfer.
LEMMA MapPageGood ==
  ASSUME Roomy, Misuse = {}, IInv, NEW src \in EntrySlot, NEW dst \in EntrySlot,
         at[<<dst[1]>>] # NoPage, MapPage(src, dst)
  PROVE  IInv'
<1> DEFINE p == at[src]
<1>1. p # NoPage /\ PageLookup(Memory, src) = p
  BY MemoryFields DEF MapPage, PageLookup
<1>2. Mappable(Memory, {}, p) /\ p \notin free
  BY <1>1, MemoryFields
    DEF IInv, Good, MemoryType, Counted, Exact, PointersIn, Mappable, Slot
<1>3. PICK n \in PageInsert(Memory, p, dst) : Becomes(n)
  BY <1>1 DEF MapPage
<1>4. Good(n, {})
  <2>1. Good(Memory, {}) /\ Memory.at[<<dst[1]>>] # NoPage /\ p \notin Memory.free
    BY <1>2, MemoryFields DEF IInv
  <2>2. Cardinality(PointersIn(Memory, p)) + 1 < RefMod
    BY <1>2, MemoryFields DEF Mappable, Roomy, Pointers, PointersIn
  <2> HIDE DEF p
  <2> QED BY <1>2, <1>3, <2>1, <2>2, InsertGood
<1> QED BY <1>3, <1>4, BecomesGood DEF IInv, MapPage

LEMMA StepKeeps ==
  ASSUME Roomy, Misuse = {}, IInv, Next
  PROVE  IInv'
<1>1. ASSUME NEW a \in Env, NEW t \in Env, NEW s \in EntrySlot, SysPageAlloc(a, t, s)
      PROVE  IInv'
  <2>1. PICK p \in free :
          LET m == PageAlloc(Memory, p)
              inserted == PageInsert(m, p, s)
          IN CASE ~ MayChange(a, t) -> Becomes(m)
               [] MayChange(a, t) /\ inserted # {} -> \E n \in inserted : Becomes(n)
               [] OTHER -> Becomes([m EXCEPT !.free = @ \cup {p}])
    BY <1>1 DEF SysPageAlloc
  <2>2. MayChange(a, t) /\ s[1] = t
    BY <1>1 DEF SysPageAlloc
  <2>3. p \in Memory.free /\ Good(Memory, {})
    BY MemoryFields DEF IInv
  <2>4. CASE \E n \in PageInsert(PageAlloc(Memory, p), p, s) : Becomes(n)
    <3>1. PICK n \in PageInsert(PageAlloc(Memory, p), p, s) : Becomes(n)
      BY <2>4
    <3>2. /\ Good(PageAlloc(Memory, p), {p}) /\ Mappable(PageAlloc(Memory, p), {p}, p)
          /\ PageAlloc(Memory, p).at = at /\ p \notin PageAlloc(Memory, p).free
      BY <2>3, AllocGood, AllocFields, MemoryFields DEF Good, Mappable
    <3>3. PageAlloc(Memory, p).at[<<s[1]>>] # NoPage
      BY <2>2, <3>2 DEF MayChange, EnvId2Env, Live
    <3>4. Cardinality(PointersIn(PageAlloc(Memory, p), p)) + 1 < RefMod
      <4>1. PointersIn(PageAlloc(Memory, p), p) = {}
        BY <2>3, AllocGood
      <4> QED BY <4>1, FS_EmptySet, PageAssumption
    <3>5. Good(n, {})
      BY <3>1, <3>2, <3>3, <3>4, InsertGood
    <3> QED BY <1>1, <3>1, <3>5, BecomesGood DEF IInv, SysPageAlloc
  <2>5. CASE Becomes([PageAlloc(Memory, p) EXCEPT !.free = @ \cup {p}])
    <3>1. Becomes(Memory)
      BY <2>3, <2>5, GiveBack
    <3> QED BY <1>1, <2>3, <3>1, BecomesGood DEF IInv, SysPageAlloc
  <2> QED BY <2>1, <2>2, <2>4, <2>5
<1>2. ASSUME NEW a \in Env, NEW t \in Env, NEW s \in EntrySlot, SysPageUnmap(a, t, s)
      PROVE  IInv'
  <2>1. Good(Memory, {}) /\ Becomes(PageRemove(Memory, s))
    BY <1>2 DEF IInv, SysPageUnmap
  <2>2. CASE at[<<s[1], s[2]>>] = NoPage
    <3>1. PageRemove(Memory, s) = Memory
      BY <2>2, MemoryFields DEF PageRemove
    <3> QED BY <1>2, <2>1, <3>1, BecomesGood DEF IInv, SysPageUnmap
  <2>3. CASE at[<<s[1], s[2]>>] # NoPage
    <3>1. Memory.at[s] # NoPage
      BY <1>2, <2>3, MemoryFields DEF SysPageUnmap
    <3>2. Good(PageRemove(Memory, s), {})
      BY <2>1, <3>1, RemoveGood
    <3> QED BY <1>2, <2>1, <3>2, BecomesGood DEF IInv, SysPageUnmap
  <2> QED BY <2>2, <2>3
<1>3. ASSUME NEW a \in Env, NEW src \in EntrySlot, NEW dst \in EntrySlot,
             \/ \E checkperm \in BOOLEAN : SysPageMap(a, src, dst, checkperm)
             \/ SysIpcTrySend(a, src, dst)
      PROVE  IInv'
  <2>1. MapPage(src, dst) /\ Live(dst[1])
    BY <1>3 DEF SysPageMap, SysIpcTrySend, EnvId2Env
  <2> QED BY <2>1, MapPageGood DEF Live
<1>4. ASSUME NEW a \in Env, NEW e \in Env, SysExofork(a, e)
      PROVE  IInv'
  <2>1. PICK p \in free : Becomes(NewTable(Memory, p, <<e>>))
    BY <1>4 DEF SysExofork, NewTable
  <2>2. p \in Memory.free /\ Good(Memory, {}) /\ Memory.at[<<e>>] = NoPage
    BY <1>4, MemoryFields DEF IInv, SysExofork, Live
  <2>3. <<e>> \in DirSlot /\ <<e>> \notin TableSlot
    BY SlotsApart DEF DirSlot
  <2>4. Good(NewTable(Memory, p, <<e>>), {})
    BY <2>2, <2>3, NewTableGood
  <2>5. parent' \in [Env -> Env \cup {NoEnv}]
    BY <1>4 DEF IInv, SysExofork
  <2> QED BY <2>1, <2>4, <2>5, BecomesGood DEF IInv
<1>5. ASSUME NEW e \in Env, EnvFree(e)
      PROVE  IInv'
  BY <1>5, EnvFreeGood
<1> QED BY <1>1, <1>2, <1>3, <1>4, <1>5 DEF Next

LEMMA StutterKeeps ==
  ASSUME IInv, UNCHANGED vars
  PROVE  IInv'
<1>1. Memory' = Memory /\ parent' = parent
  BY DEF Memory, vars
<1> QED BY <1>1 DEF IInv

-----------------------------------------------------------------------------
(* Theorems *)

\* IInv holds in every state, as long as no page has been mapped more often than
\* pp_ref can count.
THEOREM Invariance == Misuse = {} => (Spec /\ []Roomy => []IInv)
<1> SUFFICES ASSUME Misuse = {} PROVE Spec /\ []Roomy => []IInv
  OBVIOUS
<1>1. Init => IInv
  BY InitIInv
<1>2. IInv /\ Roomy /\ [Next]_vars => IInv'
  BY StepKeeps, StutterKeeps
<1> QED BY <1>1, <1>2, PTL DEF Spec

\* The type invariant, with the tree of the slots.
THEOREM Typing == Misuse = {} => (Spec /\ []Roomy => []TypeOK)
<1>1. IInv => TypeOK
  BY MemoryFields DEF IInv, Good, MemoryType, Tree, TypeOK
<1> QED BY <1>1, Invariance, PTL

\* pp_ref counts the pointers to each page.
THEOREM CountsAreExact == Misuse = {} => (Spec /\ []Roomy => []RefCounts)
<1>1. IInv => RefCounts
  <2> SUFFICES ASSUME IInv, NEW p \in Page
               PROVE  ref[p] = Cardinality(Pointers(p)) + (IF p = Zero THEN 1 ELSE 0)
    BY DEF RefCounts
  <2>1. Pointers(p) = PointersIn(Memory, p) /\ Counted(Memory)
    BY MemoryFields DEF IInv, Good, Pointers, PointersIn
  <2>2. Cardinality(PointersIn(Memory, p)) \in Nat
    BY SlotsAreFinite DEF IInv, Good
  <2>3. CASE p = Zero
    BY <2>1, <2>3, FS_EmptySet, MemoryFields DEF Counted
  <2>4. CASE p # Zero
    BY <2>1, <2>2, <2>4, MemoryFields DEF Counted
  <2> QED BY <2>3, <2>4
<1> QED BY <1>1, Invariance, PTL

\* The free list is exactly the pages that nothing points to: no page that a
\* program or a page table uses is handed out, and none is lost.
THEOREM FreeListIsExact == Misuse = {} => (Spec /\ []Roomy => []FreePagesExact)
<1>1. IInv => FreePagesExact
  BY MemoryFields DEF IInv, Good, Exact, FreePagesExact, Pointers, PointersIn
<1> QED BY <1>1, Invariance, PTL

\* No program can reach a page directory or a page table through its own
\* mappings.
THEOREM TablesArePrivate == Misuse = {} => (Spec /\ []Roomy => []TablesAreOwn)
<1>1. IInv => TablesAreOwn
  BY MemoryFields DEF IInv, Good, Own, TablesAreOwn, Pointers, PointersIn
<1> QED BY <1>1, Invariance, PTL

\* Page 0 is never free and no mapping leads to it.
THEOREM PageZeroIsKept == Misuse = {} => (Spec /\ []Roomy => []ZeroInUse)
<1>1. IInv => ZeroInUse
  BY MemoryFields DEF IInv, Good, Exact, Counted, ZeroInUse, Pointers, PointersIn
<1> QED BY <1>1, Invariance, PTL

\* In a system with fewer slots than pp_ref can count, no page can have too many
\* mappings: there all of this holds of every behaviour, whatever programs map.
THEOREM SmallSystemsCountRight ==
  Misuse = {} /\ Cardinality(Slot) + 1 < RefMod
    => (Spec => [](TypeOK /\ RefCounts /\ FreePagesExact /\ TablesAreOwn /\ ZeroInUse))
<1> SUFFICES ASSUME Misuse = {}, Cardinality(Slot) + 1 < RefMod
             PROVE  Spec => [](TypeOK /\ RefCounts /\ FreePagesExact /\ TablesAreOwn /\ ZeroInUse)
  OBVIOUS
<1>1. Roomy
  <2> SUFFICES ASSUME NEW p \in Page PROVE Cardinality(Pointers(p)) + 1 < RefMod
    BY DEF Roomy
  <2>1. IsFiniteSet(Slot) /\ Pointers(p) \subseteq Slot
    BY PageAssumption DEF Pointers
  <2>2. Cardinality(Pointers(p)) <= Cardinality(Slot)
    BY <2>1, FS_Subset
  <2>3. Cardinality(Pointers(p)) \in Nat /\ Cardinality(Slot) \in Nat /\ RefMod \in Nat
    BY <2>1, FS_Subset, FS_CardinalityType, PageAssumption
  <2> QED BY <2>2, <2>3
<1> QED BY <1>1, Typing, CountsAreExact, FreeListIsExact, TablesArePrivate, PageZeroIsKept, PTL
=============================================================================
