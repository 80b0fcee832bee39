----------------------------- MODULE Loaders_proofs ----------------------------
(***************************************************************************)
(* Proofs about the two programs that load others (LoaderParts), for       *)
(* memory, pages and images of any size: load_icode (module LoadIcode,     *)
(* with the prefix Icode) and the boot loader (BootLoader, Disk).          *)
(***************************************************************************)
EXTENDS LoaderParts, Sequences, FiniteSets, WellFoundedInduction, TLAPS

-----------------------------------------------------------------------------
(* Programs: LoadIcode *)

Pages == 0 .. UserPages - 1
Headers == DOMAIN binary.segs
Loading == icodepc \in {"region_alloc", "created"}

TypeOK ==
  /\ binary \in Binaries
  /\ icodepc \in {"load_icode", "region_alloc", "panic", "created"}
  /\ free \in Seq(1 .. Frames)
  /\ pagemap \in [Pages -> 0 .. Frames]
  /\ mem \in [1 .. Frames -> [0 .. PageCells - 1 -> Int]]
  /\ ph \in Nat /\ curva \in Nat

\* A frame is free, or one page's, or lost.
FramesOK ==
  /\ \A x, y \in DOMAIN free : free[x] = free[y] => x = y
  /\ \A v \in Pages : \A x \in DOMAIN free : free[x] # pagemap[v]
  /\ \A v, w \in Pages : pagemap[v] # Icode!Unmapped /\ pagemap[w] = pagemap[v] => v = w

\* The pages of the call of region_alloc that runs.
Region == IF Icode!OnStack THEN {Icode!StackPage} ELSE Icode!Span(binary.segs[ph])

\* Where load_icode is.
HeaderOK ==
  /\ icodepc = "load_icode" => ph = 0 /\ \A v \in Pages : pagemap[v] = Icode!Unmapped
  /\ Loading =>
       /\ binary.elf /\ ph \in 1 .. Len(binary.segs) + 1
       /\ IF Icode!OnStack THEN curva \in Icode!StackPage .. Icode!StackPage + 1 /\ eip = binary.entry
          ELSE /\ binary.segs[ph].load /\ binary.segs[ph].filesz <= binary.segs[ph].memsz
               /\ curva \in Icode!RoundDown(binary.segs[ph].va) .. Icode!RegionEnd
  /\ icodepc = "created" => Icode!OnStack /\ icodecr3 = "kern_pgdir"

\* What is mapped belongs to a segment that was loaded or to the running region,
\* and what the region has passed is mapped, unless the memory ran out.
MappedOK ==
  Loading =>
    /\ \A v \in Pages : pagemap[v] # Icode!Unmapped =>
         \/ v \in Region /\ v < curva
         \/ \E j \in Headers : j < ph /\ binary.segs[j].load /\ v \in Icode!Span(binary.segs[j])
    /\ \A v \in Region : v < curva => pagemap[v] # Icode!Unmapped \/ free = <<>>

\* Segment s is in memory m as the page table t has it.
Loaded(s, t, m) ==
  \A k \in 0 .. s.memsz - 1 :
    /\ t[Icode!RoundDown(s.va + k)] # Icode!Unmapped
    /\ m[t[Icode!RoundDown(s.va + k)]][(s.va + k) % PageCells] = IF k < s.filesz THEN s.offset + k ELSE Icode!Zero

CopiedOK ==
  Loading => \A j \in Headers : j < ph /\ binary.segs[j].load => Loaded(binary.segs[j], pagemap, mem)

IInv == TypeOK /\ FramesOK /\ HeaderOK /\ MappedOK /\ CopiedOK /\ Icode!PanicsOnlyForMemory

-----------------------------------------------------------------------------

LEMMA Division ==
  ASSUME NEW p \in Nat \ {0}, NEW a \in Nat
  PROVE  /\ a \div p \in Nat /\ a % p \in 0 .. p - 1
         /\ a = p * (a \div p) + (a % p)
         /\ a = (a \div p) * p + (a % p)
OBVIOUS

LEMMA Monotone ==
  ASSUME NEW p \in Nat \ {0}, NEW a \in Nat, NEW d \in Nat, a <= d
  PROVE  a \div p <= d \div p
OBVIOUS

LEMMA NextPage ==
  ASSUME NEW p \in Nat \ {0}, NEW a \in Nat
  PROVE  (a + p) \div p = (a \div p) + 1
OBVIOUS

LEMMA InPage ==
  ASSUME NEW p \in Nat \ {0}, NEW a \in Nat, NEW v \in Nat, NEW x \in 0 .. p - 1, a = v * p + x
  PROVE  a \div p = v /\ a % p = x
OBVIOUS

\* The pages of a segment are those its cells lie on.
LEMMA SpanIsTouched ==
  ASSUME NEW p \in Nat \ {0}, NEW va \in Nat, NEW n \in Nat \ {0}
  PROVE  {a \div p : a \in va .. va + n - 1} = (va \div p) .. ((va + n + p - 1) \div p) - 1
<1>1. (va + n + p - 1) \div p = ((va + n - 1) \div p) + 1
  <2>1. va + n - 1 \in Nat /\ va + n + p - 1 = (va + n - 1) + p
    OBVIOUS
  <2> QED BY <2>1, NextPage
<1>2. ASSUME NEW a \in va .. va + n - 1
      PROVE  a \div p \in (va \div p) .. ((va + n - 1) \div p)
  BY Monotone, Division
<1>3. ASSUME NEW v \in (va \div p) .. ((va + n - 1) \div p)
      PROVE  \E a \in va .. va + n - 1 : a \div p = v
  <2>1. va \div p \in Nat /\ (va + n - 1) \div p \in Nat /\ v \in Nat
    BY Division
  <2>2. CASE v = va \div p
    BY <2>2
  <2>3. CASE v # va \div p
    <3>1. (v * p) \div p = v /\ v * p \in Nat
      BY <2>1, InPage
    <3>2. v >= (va \div p) + 1
      BY <2>1, <2>3
    <3>3. v * p >= va
      BY <3>2, <2>1, Division
    <3>4. v * p <= va + n - 1
      <4> DEFINE q == (va + n - 1) \div p
      <4>1. q \in Nat /\ v <= q /\ p * q <= va + n - 1
        BY <2>1, Division
      <4> HIDE DEF q
      <4>2. v * p <= p * q
        BY <4>1, <2>1
      <4>3. v * p \in Int /\ p * q \in Int /\ va + n - 1 \in Int
        BY <4>1, <2>1
      <4> QED BY <4>1, <4>2, <4>3
    <3>5. v * p \in va .. va + n - 1
      BY <3>1, <3>3, <3>4
    <3> QED BY <3>1, <3>5
  <2> QED BY <2>2, <2>3
<1>4. va \div p \in Int /\ (va + n - 1) \div p \in Int
  BY Division
<1> DEFINE x == va \div p
           y == (va + n - 1) \div p
           T == {a \div p : a \in va .. va + n - 1}
<1>5. T = x .. y
  <2>1. T \subseteq x .. y
    BY <1>2
  <2>2. x .. y \subseteq T
    BY <1>3
  <2> QED BY <2>1, <2>2
<1>6. y = ((va + n + p - 1) \div p) - 1
  BY <1>1, <1>4
<1> QED BY <1>5, <1>6

-----------------------------------------------------------------------------

SegmentType == [load : BOOLEAN, va : Nat, offset : Nat, filesz : Nat, memsz : Nat]

LEMMA Facts ==
  ASSUME Icode!LoadIcodeAssumption, TypeOK
  PROVE  /\ PageCells \in Nat \ {0} /\ UserPages \in Nat \ {0} /\ Frames \in Nat
         /\ Icode!StackPage \in Nat /\ Icode!StackPage \in Pages /\ Icode!StackPage + 1 = UserPages
         /\ binary.elf \in BOOLEAN /\ binary.segs \in Seq(SegmentType)
         /\ Len(binary.segs) \in Nat /\ Headers = 1 .. Len(binary.segs)
<1>1. binary \in Binaries
  BY DEF TypeOK
<1>2. /\ PageCells \in Nat \ {0} /\ UserPages \in Nat \ {0} /\ Frames \in Nat
      /\ binary.elf \in BOOLEAN /\ binary.segs \in Seq(SegmentType)
  BY <1>1 DEF Icode!LoadIcodeAssumption, SegmentType
<1> QED BY <1>2 DEF Icode!StackPage, Pages, Headers

LEMMA SegmentFacts ==
  ASSUME Icode!LoadIcodeAssumption, TypeOK, NEW j \in Headers
  PROVE  /\ binary.segs[j] \in SegmentType
         /\ binary.segs[j].va \in Nat /\ binary.segs[j].memsz \in Nat
         /\ binary.segs[j].filesz \in Nat /\ binary.segs[j].offset \in Nat
         /\ Icode!RoundDown(binary.segs[j].va) \in Nat
         /\ binary.segs[j].load =>
              /\ binary.segs[j].memsz \in Nat \ {0}
              /\ Icode!EndPage(binary.segs[j].va, binary.segs[j].memsz) \in Nat
              /\ Icode!RoundDown(binary.segs[j].va) <= Icode!EndPage(binary.segs[j].va, binary.segs[j].memsz)
              /\ Icode!EndPage(binary.segs[j].va, binary.segs[j].memsz) <= Icode!StackPage
              /\ Icode!Span(binary.segs[j]) \subseteq Pages /\ Icode!StackPage \notin Icode!Span(binary.segs[j])
              /\ \A k \in Headers : k # j /\ binary.segs[k].load =>
                   Icode!Span(binary.segs[j]) \cap Icode!Span(binary.segs[k]) = {}
<1>1. binary.segs[j] \in SegmentType
  BY Facts
<1>2. /\ binary.segs[j].va \in Nat /\ binary.segs[j].memsz \in Nat
      /\ binary.segs[j].filesz \in Nat /\ binary.segs[j].offset \in Nat
      /\ Icode!RoundDown(binary.segs[j].va) \in Nat
  BY <1>1, Facts, Division DEF SegmentType, Icode!RoundDown
<1>3. ASSUME binary.segs[j].load
      PROVE  /\ binary.segs[j].memsz > 0
             /\ Icode!EndPage(binary.segs[j].va, binary.segs[j].memsz) <= Icode!StackPage
             /\ \A k \in DOMAIN binary.segs \ {j} :
                  binary.segs[k].load => Icode!Span(binary.segs[j]) \cap Icode!Span(binary.segs[k]) = {}
  BY <1>3 DEF Icode!LoadIcodeAssumption, TypeOK, Headers
<1>4. ASSUME binary.segs[j].load
      PROVE  /\ Icode!EndPage(binary.segs[j].va, binary.segs[j].memsz) \in Nat
             /\ Icode!RoundDown(binary.segs[j].va) <= Icode!EndPage(binary.segs[j].va, binary.segs[j].memsz)
  <2> DEFINE va == binary.segs[j].va
             n == binary.segs[j].memsz
  <2>0. va \in Nat /\ n \in Nat /\ PageCells \in Nat \ {0}
    BY <1>2, Facts
  <2> HIDE DEF va, n
  <2>1. va + n + PageCells - 1 \in Nat
    BY <2>0
  <2>2. va <= va + n + PageCells - 1
    BY <2>0
  <2>3. Icode!EndPage(va, n) \in Nat /\ Icode!RoundDown(va) <= Icode!EndPage(va, n)
    BY <2>0, <2>1, <2>2, Division, Monotone DEF Icode!EndPage, Icode!RoundDown
  <2> QED BY <2>3 DEF va, n
<1>5. ASSUME binary.segs[j].load
      PROVE  Icode!Span(binary.segs[j]) \subseteq Pages /\ Icode!StackPage \notin Icode!Span(binary.segs[j])
  BY <1>2, <1>3, <1>4, <1>5, Facts DEF Icode!Span, Pages
<1>6. \A k \in Headers : k # j => k \in DOMAIN binary.segs \ {j}
  BY DEF Headers
<1> QED BY <1>1, <1>2, <1>3, <1>4, <1>5, <1>6

\* The cells of a segment and its pages.
LEMMA CellsOfSpan ==
  ASSUME Icode!LoadIcodeAssumption, TypeOK, NEW j \in Headers, binary.segs[j].load
  PROVE  /\ {va \div PageCells : va \in binary.segs[j].va .. binary.segs[j].va + binary.segs[j].memsz - 1}
              = Icode!Span(binary.segs[j])
         /\ \A k \in 0 .. binary.segs[j].memsz - 1 :
              Icode!RoundDown(binary.segs[j].va + k) \in Icode!Span(binary.segs[j])
<1> DEFINE s == binary.segs[j]
<1>1. s.va \in Nat /\ s.memsz \in Nat \ {0} /\ PageCells \in Nat \ {0}
  BY SegmentFacts, Facts
<1> HIDE DEF s
<1>2. {va \div PageCells : va \in s.va .. s.va + s.memsz - 1} = Icode!Span(s)
  BY <1>1, SpanIsTouched DEF Icode!Span, Icode!RoundDown, Icode!EndPage
<1>3. ASSUME NEW k \in 0 .. s.memsz - 1
      PROVE  Icode!RoundDown(s.va + k) \in Icode!Span(s)
  <2>1. s.va + k \in s.va .. s.va + s.memsz - 1
    BY <1>1
  <2>2. (s.va + k) \div PageCells \in {va \div PageCells : va \in s.va .. s.va + s.memsz - 1}
    BY <2>1
  <2> QED BY <2>2, <1>2 DEF Icode!RoundDown
<1> QED BY <1>2, <1>3 DEF s

\* A segment stays as long as its pages and their frames do.
LEMMA LoadedStays ==
  ASSUME Icode!LoadIcodeAssumption, TypeOK, NEW j \in Headers, binary.segs[j].load,
         NEW t, NEW m, NEW u, NEW l,
         Loaded(binary.segs[j], t, m),
         \A v \in Icode!Span(binary.segs[j]) : u[v] = t[v] /\ l[t[v]] = m[t[v]]
  PROVE  Loaded(binary.segs[j], u, l)
BY CellsOfSpan DEF Loaded

LEMMA LoadedIsMapped ==
  ASSUME Icode!LoadIcodeAssumption, TypeOK, NEW j \in Headers, binary.segs[j].load, NEW t, NEW m,
         Loaded(binary.segs[j], t, m), NEW v \in Icode!Span(binary.segs[j])
  PROVE  t[v] # Icode!Unmapped
<1> DEFINE s == binary.segs[j]
<1>1. s.va \in Nat /\ s.memsz \in Nat
  BY SegmentFacts
<1>2. PICK va \in s.va .. s.va + s.memsz - 1 : v = va \div PageCells
  BY CellsOfSpan
<1> HIDE DEF s
<1>3. va - s.va \in 0 .. s.memsz - 1 /\ s.va + (va - s.va) = va
  BY <1>1, <1>2
<1>4. Loaded(s, t, m)
  BY DEF s
<1> QED BY <1>2, <1>3, <1>4 DEF Loaded, Icode!RoundDown

LEMMA NextLoadable ==
  ASSUME Icode!LoadIcodeAssumption, TypeOK, NEW k \in 1 .. Len(binary.segs) + 1, Icode!NextHeader(k)
  PROVE  /\ ph' \in k .. Len(binary.segs) + 1
         /\ \A j \in Headers : k <= j /\ j < ph' => ~ binary.segs[j].load
         /\ ph' <= Len(binary.segs) => ph' \in Headers /\ binary.segs[ph'].load
         /\ IF ph' > Len(binary.segs) THEN icodepc' = "region_alloc" /\ curva' = Icode!StackPage
            ELSE IF binary.segs[ph'].filesz > binary.segs[ph'].memsz THEN icodepc' = "panic" /\ UNCHANGED curva
            ELSE icodepc' = "region_alloc" /\ curva' = Icode!RoundDown(binary.segs[ph'].va)
<1> DEFINE loadable == {j \in k .. Len(binary.segs) : binary.segs[j].load}
           least == CHOOSE x \in loadable : \A y \in loadable : x <= y
           next == IF loadable = {} THEN Len(binary.segs) + 1 ELSE least
<1>1. ph' = next
  BY DEF Icode!NextHeader
<1>2. loadable \subseteq Nat /\ loadable \subseteq Headers
  BY Facts
<1>3. ASSUME loadable # {}
      PROVE  least \in loadable /\ \A y \in loadable : least <= y
  <2> DEFINE R == OpToRel(<, Nat)
  <2>1. \E x \in loadable : \A y \in loadable : <<y, x>> \notin R
    BY <1>2, <1>3, NatLessThanWellFounded, WFMin
  <2>2. \A x, y \in Nat : y < x => <<y, x>> \in R
    BY DEF OpToRel
  <2> HIDE DEF R
  <2>3. PICK x \in loadable : \A y \in loadable : <<y, x>> \notin R
    BY <2>1
  <2> HIDE DEF loadable
  <2>4. \A y \in loadable : x <= y
    <3> TAKE y \in loadable
    <3>1. x \in Nat /\ y \in Nat /\ ~(y < x)
      BY <2>2, <2>3, <1>2
    <3> QED BY <3>1
  <2> QED BY <2>3, <2>4
<1>4. /\ next \in k .. Len(binary.segs) + 1
      /\ \A j \in Headers : k <= j /\ j < next => ~ binary.segs[j].load
      /\ next <= Len(binary.segs) => next \in Headers /\ binary.segs[next].load
  <2>1. CASE loadable = {}
    BY <2>1, Facts
  <2>2. CASE loadable # {}
    <3>1. least \in loadable /\ next = least
      BY <2>2, <1>3
    <3>2. \A j \in Headers : k <= j /\ j < least => j \notin loadable
      <4>1. \A y \in loadable : least <= y
        BY <2>2, <1>3
      <4> HIDE DEF least
      <4> QED BY <4>1, <3>1, <1>2, Facts
    <3>3. least \in k .. Len(binary.segs) /\ binary.segs[least].load
      BY <3>1
    <3>4. \A j \in Headers : k <= j => j \in k .. Len(binary.segs)
      BY Facts
    <3>5. \A j \in Headers : k <= j /\ j < least => ~ binary.segs[j].load
      BY <3>2, <3>4
    <3> HIDE DEF least, next
    <3> QED BY <3>1, <3>3, <3>5, Facts
  <2> QED BY <2>1, <2>2
<1>5. IF next > Len(binary.segs) THEN icodepc' = "region_alloc" /\ curva' = Icode!StackPage
      ELSE IF binary.segs[next].filesz > binary.segs[next].memsz THEN icodepc' = "panic" /\ UNCHANGED curva
      ELSE icodepc' = "region_alloc" /\ curva' = Icode!RoundDown(binary.segs[next].va)
  BY DEF Icode!NextHeader
<1> HIDE DEF next
<1> QED BY <1>1, <1>4, <1>5

-----------------------------------------------------------------------------

\* The invariant after load_icode has gone on to the next header.
LEMMA HeaderStep ==
  ASSUME Icode!LoadIcodeAssumption, TypeOK, TypeOK', NEW k \in 1 .. Len(binary.segs) + 1, Icode!NextHeader(k),
         binary.elf, binary' = binary, pagemap' = pagemap,
         eip' = IF ph' > Len(binary.segs) THEN binary.entry ELSE eip,
         \A v \in Pages : pagemap[v] # Icode!Unmapped =>
           \E j \in Headers : j < k /\ binary.segs[j].load /\ v \in Icode!Span(binary.segs[j]),
         \A j \in Headers : j < k /\ binary.segs[j].load => Loaded(binary.segs[j], pagemap, mem')
  PROVE  HeaderOK' /\ MappedOK' /\ CopiedOK' /\ Icode!PanicsOnlyForMemory'
<1>1. /\ ph' \in k .. Len(binary.segs) + 1
      /\ \A j \in Headers : k <= j /\ j < ph' => ~ binary.segs[j].load
      /\ ph' <= Len(binary.segs) => ph' \in Headers /\ binary.segs[ph'].load
      /\ IF ph' > Len(binary.segs) THEN icodepc' = "region_alloc" /\ curva' = Icode!StackPage
         ELSE IF binary.segs[ph'].filesz > binary.segs[ph'].memsz THEN icodepc' = "panic" /\ UNCHANGED curva
         ELSE icodepc' = "region_alloc" /\ curva' = Icode!RoundDown(binary.segs[ph'].va)
  BY NextLoadable
<1>2. ph' \in Nat /\ k \in Nat /\ Len(binary.segs) \in Nat /\ Headers = 1 .. Len(binary.segs)
      /\ Icode!StackPage \in Nat
  BY <1>1, Facts
<1>3. \A j \in Headers : j < ph' /\ binary.segs[j].load => j < k
  BY <1>1, <1>2
<1>4. HeaderOK'
  <2>1. CASE ph' > Len(binary.segs)
    BY <2>1, <1>1, <1>2 DEF HeaderOK, Loading, Icode!OnStack
  <2>2. CASE ph' <= Len(binary.segs) /\ binary.segs[ph'].filesz > binary.segs[ph'].memsz
    <3>1. icodepc' = "panic"
      BY <2>2, <1>1, <1>2
    <3> QED BY <3>1 DEF HeaderOK, Loading
  <2>3. CASE ph' <= Len(binary.segs) /\ ~(binary.segs[ph'].filesz > binary.segs[ph'].memsz)
    <3>1. ph' \in Headers /\ binary.segs[ph'].load
      BY <2>3, <1>1
    <3>2. icodepc' = "region_alloc" /\ curva' = Icode!RoundDown(binary.segs[ph'].va)
      BY <2>3, <1>1, <1>2
    <3>3. /\ Icode!RoundDown(binary.segs[ph'].va) \in Nat
          /\ Icode!EndPage(binary.segs[ph'].va, binary.segs[ph'].memsz) \in Nat
          /\ Icode!RoundDown(binary.segs[ph'].va) <= Icode!EndPage(binary.segs[ph'].va, binary.segs[ph'].memsz)
          /\ binary.segs[ph'].filesz \in Nat /\ binary.segs[ph'].memsz \in Nat
      BY <3>1, SegmentFacts
    <3>4. Icode!OnStack' <=> FALSE
      BY <2>3, <1>2 DEF Icode!OnStack
    <3>5. binary.segs[ph'].filesz <= binary.segs[ph'].memsz
      BY <2>3, <3>3
    <3>6. curva' \in Icode!RoundDown(binary.segs[ph'].va) .. Icode!EndPage(binary.segs[ph'].va,
            binary.segs[ph'].memsz)
      BY <3>2, <3>3
    <3>7. Icode!RegionEnd' = Icode!EndPage(binary.segs[ph'].va, binary.segs[ph'].memsz)
      BY <3>4 DEF Icode!RegionEnd
    <3>8. ph' \in 1 .. Len(binary.segs) + 1
      BY <1>1, <1>2
    <3> QED BY <3>1, <3>2, <3>4, <3>5, <3>6, <3>7, <3>8 DEF HeaderOK, Loading
  <2> QED BY <2>1, <2>2, <2>3, <1>2
<1>5. MappedOK'
  <2> SUFFICES ASSUME Loading'
               PROVE  /\ \A v \in Pages : pagemap[v] # Icode!Unmapped =>
                           \/ v \in Region' /\ v < curva'
                           \/ \E j \in Headers : j < ph' /\ binary.segs[j].load
                                /\ v \in Icode!Span(binary.segs[j])
                      /\ \A v \in Region' : ~ (v < curva')
    BY DEF MappedOK, Headers
  <2>1. \A j \in Headers : j < k => j < ph'
    BY <1>1, <1>2
  <2>2. ASSUME NEW v \in Region' PROVE ~ (v < curva')
    <3>1. CASE ph' > Len(binary.segs)
      BY <3>1, <2>2, <1>1, <1>2 DEF Region, Icode!OnStack
    <3>2. CASE ph' <= Len(binary.segs)
      <4>1. v \in Icode!Span(binary.segs[ph'])
        BY <3>2, <2>2, <1>2 DEF Region, Icode!OnStack
      <4>2. ph' \in Headers /\ curva' = Icode!RoundDown(binary.segs[ph'].va) /\ binary.segs[ph'].load
        BY <3>2, <1>1, <1>2 DEF Loading
      <4>3. Icode!RoundDown(binary.segs[ph'].va) \in Nat
            /\ Icode!EndPage(binary.segs[ph'].va, binary.segs[ph'].memsz) \in Nat
        BY <4>2, SegmentFacts
      <4> QED BY <4>1, <4>2, <4>3 DEF Icode!Span
    <3> QED BY <3>1, <3>2, <1>2
  <2> QED BY <2>1, <2>2
<1>6. CopiedOK'
  BY <1>3 DEF CopiedOK, Headers
<1>7. Icode!PanicsOnlyForMemory'
  <2>1. ASSUME icodepc' = "panic"
        PROVE  \E s \in Icode!Loads' : s.filesz > s.memsz
    <3>1. ph' <= Len(binary.segs) /\ binary.segs[ph'].filesz > binary.segs[ph'].memsz
      BY <2>1, <1>1, <1>2
    <3>2. ph' \in Headers /\ binary.segs[ph'].load
      BY <3>1, <1>1
    <3>3. binary.segs[ph'] \in Icode!Loads'
      BY <3>2 DEF Icode!Loads, Headers
    <3> QED BY <3>1, <3>3
  <2> QED BY <2>1 DEF Icode!PanicsOnlyForMemory
<1> QED BY <1>4, <1>5, <1>6, <1>7

LEMMA InitHolds ==
  ASSUME Icode!LoadIcodeAssumption, Icode!Init
  PROVE  IInv
<1>1. TypeOK
  <2>1. PICK k \in FreeCounts : free = [j \in 1 .. k |-> j]
    BY DEF Icode!Init
  <2>2. k \in 0 .. Frames /\ Frames \in Nat
    BY DEF Icode!LoadIcodeAssumption
  <2>3. free \in Seq(1 .. Frames)
    BY <2>1, <2>2
  <2> QED BY <2>3, <2>2 DEF Icode!Init, TypeOK, Pages, Icode!Unmapped, Icode!Junk
<1>2. FramesOK
  <2>1. PICK k \in FreeCounts : free = [j \in 1 .. k |-> j]
    BY DEF Icode!Init
  <2>2. k \in 0 .. Frames /\ Frames \in Nat
    BY DEF Icode!LoadIcodeAssumption
  <2> QED BY <2>1, <2>2 DEF FramesOK, Icode!Init, Pages, Icode!Unmapped
<1> QED BY <1>1, <1>2 DEF Icode!Init, IInv, HeaderOK, MappedOK, CopiedOK, Icode!PanicsOnlyForMemory,
  Loading, Pages

LEMMA BeginKeeps ==
  ASSUME Icode!LoadIcodeAssumption, IInv, Icode!Begin
  PROVE  IInv'
<1>1. CASE ~ binary.elf
  <2>1. icodepc' = "panic" /\ UNCHANGED <<binary, free, tables, pagemap, mem, icodecr3, ph, curva, eip>>
    BY <1>1 DEF Icode!Begin, Icode!Panic
  <2> QED BY <2>1, <1>1 DEF IInv, TypeOK, FramesOK, HeaderOK, MappedOK, CopiedOK,
    Icode!PanicsOnlyForMemory, Loading, Pages
<1>2. CASE binary.elf
  <2>1. /\ Icode!NextHeader(1) /\ UNCHANGED <<binary, free, tables, pagemap, mem>>
        /\ eip' = IF ph' > Len(binary.segs) THEN binary.entry ELSE eip
        /\ icodepc = "load_icode"
    BY <1>2 DEF Icode!Begin
  <2>2. 1 \in 1 .. Len(binary.segs) + 1
    BY Facts DEF IInv
  <2>3. ph' \in 1 .. Len(binary.segs) + 1 /\ icodepc' \in {"region_alloc", "panic"} /\ curva' \in Nat
    <3>1. /\ ph' \in 1 .. Len(binary.segs) + 1
          /\ ph' <= Len(binary.segs) => ph' \in Headers
          /\ IF ph' > Len(binary.segs) THEN icodepc' = "region_alloc" /\ curva' = Icode!StackPage
             ELSE IF binary.segs[ph'].filesz > binary.segs[ph'].memsz THEN icodepc' = "panic" /\ UNCHANGED curva
             ELSE icodepc' = "region_alloc" /\ curva' = Icode!RoundDown(binary.segs[ph'].va)
      BY <2>1, <2>2, NextLoadable DEF IInv
    <3> QED BY <3>1, Facts, SegmentFacts DEF IInv, TypeOK
  <2>4. TypeOK' /\ FramesOK'
    BY <2>1, <2>3, Facts DEF IInv, TypeOK, FramesOK, Pages
  <2>5. \A v \in Pages : pagemap[v] = Icode!Unmapped
    BY <2>1 DEF IInv, HeaderOK
  <2>6. \A j \in Headers : ~ (j < 1)
    BY Facts DEF IInv
  <2>7. HeaderOK' /\ MappedOK' /\ CopiedOK' /\ Icode!PanicsOnlyForMemory'
    BY <1>2, <2>1, <2>2, <2>4, <2>5, <2>6, HeaderStep DEF IInv
  <2> QED BY <2>4, <2>7 DEF IInv
<1> QED BY <1>1, <1>2

LEMMA CurvaInRegion ==
  ASSUME Icode!LoadIcodeAssumption, IInv, icodepc = "region_alloc"
  PROVE  /\ Headers = 1 .. Len(binary.segs) /\ ph \in 1 .. Len(binary.segs) + 1
         /\ ~ Icode!OnStack => ph \in Headers /\ binary.segs[ph].load
         /\ Icode!RegionEnd \in Nat /\ Icode!RegionEnd <= UserPages
         /\ \A v \in Region : v \in Pages
         /\ \A v \in Nat : v < Icode!RegionEnd /\ v >= curva => v \in Region
         /\ \A v \in Region : v < Icode!RegionEnd
         /\ curva <= Icode!RegionEnd
         /\ \A j \in Headers : j < ph /\ binary.segs[j].load => Icode!Span(binary.segs[j]) \cap Region = {}
<1>1. /\ Headers = 1 .. Len(binary.segs) /\ ph \in 1 .. Len(binary.segs) + 1
      /\ Len(binary.segs) \in Nat /\ Icode!StackPage \in Nat /\ Icode!StackPage + 1 = UserPages /\ curva \in Nat
  BY Facts DEF IInv, TypeOK, HeaderOK, Loading
<1>2. CASE Icode!OnStack
  <2>1. curva \in Icode!StackPage .. Icode!StackPage + 1 /\ Icode!RegionEnd = Icode!StackPage + 1
        /\ Region = {Icode!StackPage}
    BY <1>2 DEF IInv, HeaderOK, Loading, Icode!RegionEnd, Region
  <2>2. \A j \in Headers : binary.segs[j].load => Icode!StackPage \notin Icode!Span(binary.segs[j])
    BY SegmentFacts DEF IInv
  <2> QED BY <1>1, <1>2, <2>1, <2>2 DEF Pages
<1>3. CASE ~ Icode!OnStack
  <2>1. ph \in Headers
    BY <1>1, <1>3 DEF Icode!OnStack
  <2>2. /\ binary.segs[ph].load
        /\ curva \in Icode!RoundDown(binary.segs[ph].va) .. Icode!RegionEnd
        /\ Icode!RegionEnd = Icode!EndPage(binary.segs[ph].va, binary.segs[ph].memsz)
        /\ Region = Icode!RoundDown(binary.segs[ph].va) .. Icode!RegionEnd - 1
        /\ Region = Icode!Span(binary.segs[ph])
    BY <1>3 DEF IInv, HeaderOK, Loading, Icode!RegionEnd, Region, Icode!Span
  <2>3. /\ Icode!RoundDown(binary.segs[ph].va) \in Nat /\ Icode!RegionEnd \in Nat
        /\ Icode!RegionEnd <= Icode!StackPage
        /\ Region \subseteq Pages
        /\ \A k \in Headers : k # ph /\ binary.segs[k].load =>
              Icode!Span(binary.segs[ph]) \cap Icode!Span(binary.segs[k]) = {}
    BY <2>1, <2>2, SegmentFacts DEF IInv
  <2>4. \A j \in Headers : j < ph /\ binary.segs[j].load => Icode!Span(binary.segs[j]) \cap Region = {}
    <3> TAKE j \in Headers
    <3> HAVE j < ph /\ binary.segs[j].load
    <3>1. j # ph
      BY <1>1
    <3>2. Icode!Span(binary.segs[ph]) \cap Icode!Span(binary.segs[j]) = {}
      BY <3>1, <2>3
    <3> QED BY <3>2, <2>2
  <2>5. /\ \A v \in Nat : v < Icode!RegionEnd /\ v >= curva => v \in Region
        /\ \A v \in Region : v < Icode!RegionEnd
        /\ curva <= Icode!RegionEnd
    BY <2>2, <2>3, <1>1
  <2> QED BY <1>1, <1>3, <2>1, <2>2, <2>3, <2>4, <2>5
<1> QED BY <1>2, <1>3

LEMMA ElementOfSequence ==
  ASSUME NEW S, NEW s \in Seq(S), NEW i \in DOMAIN s
  PROVE  s[i] \in S
OBVIOUS

\* The next frame of the free list is nobody's.
LEMMA HeadIsFree ==
  ASSUME Icode!LoadIcodeAssumption, TypeOK, FramesOK, free # <<>>
  PROVE  /\ Head(free) \in 1 .. Frames
         /\ \A v \in Pages : pagemap[v] # Head(free)
         /\ Tail(free) \in Seq(1 .. Frames)
         /\ \A x \in DOMAIN Tail(free) : x + 1 \in DOMAIN free /\ Tail(free)[x] = free[x + 1]
         /\ \A x \in DOMAIN Tail(free) : Tail(free)[x] # Head(free)
         /\ \A x, y \in DOMAIN Tail(free) : Tail(free)[x] = Tail(free)[y] => x = y
         /\ \A v \in Pages : \A x \in DOMAIN Tail(free) : Tail(free)[x] # pagemap[v]
<1>1. free \in Seq(1 .. Frames) /\ Len(free) \in Nat /\ Len(free) > 0 /\ DOMAIN free = 1 .. Len(free)
  BY DEF TypeOK
<1>2. /\ Tail(free) \in Seq(1 .. Frames)
      /\ Len(Tail(free)) = Len(free) - 1 /\ DOMAIN Tail(free) = 1 .. Len(free) - 1
      /\ \A x \in 1 .. Len(free) - 1 : Tail(free)[x] = free[x + 1]
  BY <1>1
<1>3. Head(free) = free[1] /\ 1 \in DOMAIN free /\ free[1] \in 1 .. Frames
  <2>1. 1 \in DOMAIN free
    BY <1>1
  <2>2. free[1] \in 1 .. Frames
    BY <1>1, <2>1, ElementOfSequence
  <2> QED BY <2>1, <2>2, <1>1
<1>4. \A x \in DOMAIN Tail(free) : x \in Nat /\ x + 1 \in DOMAIN free /\ x + 1 # 1
      /\ Tail(free)[x] = free[x + 1]
  BY <1>1, <1>2
<1>5. \A x, y \in DOMAIN free : free[x] = free[y] => x = y
  BY DEF FramesOK
<1>6. \A x, y \in DOMAIN Tail(free) : x + 1 = y + 1 => x = y
  BY <1>4
<1>7. \A x \in DOMAIN Tail(free) : Tail(free)[x] # Head(free)
  BY <1>3, <1>4, <1>5
<1>8. \A x, y \in DOMAIN Tail(free) : Tail(free)[x] = Tail(free)[y] => x = y
  BY <1>4, <1>5, <1>6
<1>9. /\ \A v \in Pages : pagemap[v] # Head(free)
      /\ \A v \in Pages : \A x \in DOMAIN Tail(free) : Tail(free)[x] # pagemap[v]
  BY <1>3, <1>4 DEF FramesOK
<1> QED BY <1>2, <1>3, <1>4, <1>7, <1>8, <1>9

\* Some frames are taken from the free list, and the first may be mapped.
LEMMA FramesKept ==
  ASSUME Icode!LoadIcodeAssumption, TypeOK, FramesOK, free # <<>>, NEW page \in Pages,
         \/ free' = Tail(free)
         \/ Tail(free) # <<>> /\ free' = Tail(Tail(free)),
         pagemap' \in {pagemap, [pagemap EXCEPT ![page] = Head(free)]}
  PROVE  /\ free' \in Seq(1 .. Frames) /\ pagemap' \in [Pages -> 0 .. Frames]
         /\ FramesOK'
<1>1. /\ free' \in Seq(1 .. Frames)
      /\ \A x \in DOMAIN free' : \E y \in DOMAIN Tail(free) : free'[x] = Tail(free)[y]
      /\ \A x, y \in DOMAIN free' : free'[x] = free'[y] => x = y
  <2>1. CASE free' = Tail(free)
    BY <2>1, HeadIsFree
  <2>2. CASE Tail(free) # <<>> /\ free' = Tail(Tail(free))
    <3> DEFINE s == Tail(free)
    <3>1. s \in Seq(1 .. Frames) /\ \A x, y \in DOMAIN s : s[x] = s[y] => x = y
      BY HeadIsFree
    <3> HIDE DEF s
    <3>2. CASE s # <<>> /\ free' = Tail(s)
      <4>1. /\ free' \in Seq(1 .. Frames) /\ Len(s) \in Nat /\ DOMAIN s = 1 .. Len(s)
            /\ DOMAIN free' = 1 .. Len(s) - 1
            /\ \A x \in 1 .. Len(s) - 1 : free'[x] = s[x + 1]
        BY <3>1, <3>2
      <4>2. \A x \in DOMAIN free' : x \in Nat /\ x + 1 \in DOMAIN s /\ free'[x] = s[x + 1]
        BY <4>1
      <4>3. ASSUME NEW x \in DOMAIN free', NEW y \in DOMAIN free', free'[x] = free'[y]
            PROVE  x = y
        <5>1. x + 1 = y + 1
          BY <4>2, <4>3, <3>1
        <5> QED BY <5>1, <4>2
      <4> QED BY <4>1, <4>2, <4>3 DEF s
    <3> QED BY <3>2, <2>2 DEF s
  <2> QED BY <2>1, <2>2
<1>2. /\ Head(free) \in 1 .. Frames /\ Frames \in Nat
      /\ \A v \in Pages : pagemap[v] # Head(free)
      /\ \A x \in DOMAIN free' : free'[x] # Head(free)
      /\ \A v \in Pages : \A x \in DOMAIN free' : free'[x] # pagemap[v]
  <2>1. /\ Head(free) \in 1 .. Frames /\ Frames \in Nat
        /\ \A v \in Pages : pagemap[v] # Head(free)
        /\ \A x \in DOMAIN Tail(free) : Tail(free)[x] # Head(free)
        /\ \A v \in Pages : \A x \in DOMAIN Tail(free) : Tail(free)[x] # pagemap[v]
    BY HeadIsFree, Facts
  <2> QED BY <2>1, <1>1
<1>3. pagemap \in [Pages -> 0 .. Frames]
  BY DEF TypeOK
<1>4. pagemap' \in [Pages -> 0 .. Frames]
  BY <1>2, <1>3
<1>5. FramesOK'
  <2>1. CASE pagemap' = pagemap
    BY <2>1, <1>1, <1>2 DEF FramesOK, Pages
  <2>2. CASE pagemap' = [pagemap EXCEPT ![page] = Head(free)]
    <3>1. \A v \in Pages : pagemap'[v] = IF v = page THEN Head(free) ELSE pagemap[v]
      BY <2>2, <1>3
    <3>2. \A v \in Pages : \A x \in DOMAIN free' : free'[x] # pagemap'[v]
      BY <3>1, <1>2
    <3>3. \A v, w \in Pages : pagemap'[v] # Icode!Unmapped /\ pagemap'[w] = pagemap'[v] => v = w
      BY <3>1, <1>2 DEF FramesOK
    <3> QED BY <3>2, <3>3, <1>1 DEF FramesOK, Pages
  <2> QED BY <2>1, <2>2
<1> QED BY <1>1, <1>4, <1>5

LEMMA RegionPageKeeps ==
  ASSUME Icode!LoadIcodeAssumption, IInv, Icode!RegionPage
  PROVE  IInv'
<1>1. icodepc = "region_alloc" /\ curva < Icode!RegionEnd /\ curva \in Nat /\ Loading
  BY DEF Icode!RegionPage, IInv, TypeOK, Loading
<1>2. CASE free = <<>>
  <2>1. icodepc' = "panic" /\ UNCHANGED <<binary, free, tables, pagemap, mem, icodecr3, ph, curva, eip>>
    BY <1>2 DEF Icode!RegionPage, Icode!Panic
  <2> QED BY <2>1, <1>2 DEF IInv, TypeOK, FramesOK, HeaderOK, MappedOK, CopiedOK,
    Icode!PanicsOnlyForMemory, Loading, Pages
<1>3. CASE free # <<>>
  <2>1. /\ curva' = curva + 1 /\ UNCHANGED <<icodepc, binary, mem, icodecr3, ph, eip>>
        /\ \/ free' = Tail(free)
           \/ Tail(free) # <<>> /\ free' = Tail(Tail(free))
        /\ \/ pagemap' = [pagemap EXCEPT ![curva] = Head(free)]
           \/ pagemap' = pagemap /\ free' = <<>>
    BY <1>3 DEF Icode!RegionPage
  <2>2. curva \in Region /\ curva \in Pages /\ Icode!RegionEnd \in Nat
    BY <1>1, CurvaInRegion
  <2>3. free' \in Seq(1 .. Frames) /\ pagemap' \in [Pages -> 0 .. Frames] /\ FramesOK'
    BY <1>3, <2>1, <2>2, FramesKept DEF IInv
  <2>4. TypeOK'
    BY <2>1, <2>3, <1>1 DEF IInv, TypeOK, Pages
  <2>5. /\ Head(free) # Icode!Unmapped
        /\ pagemap \in [Pages -> 0 .. Frames]
    BY <1>3, HeadIsFree, Facts DEF IInv, TypeOK, Icode!Unmapped
  <2>6. \A v \in Pages : v # curva => pagemap'[v] = pagemap[v]
    BY <2>1, <2>5
  <2>7. pagemap'[curva] # Icode!Unmapped \/ free' = <<>>
    BY <2>1, <2>2, <2>5
  <2>8. Icode!RegionEnd' = Icode!RegionEnd /\ Region' = Region /\ (Icode!OnStack' <=> Icode!OnStack)
    BY <2>1 DEF Icode!RegionEnd, Region, Icode!OnStack
  <2>9. HeaderOK'
    <3>1. CASE Icode!OnStack
      <4>1. curva \in Icode!StackPage .. Icode!StackPage + 1 /\ Icode!RegionEnd = Icode!StackPage + 1
            /\ Icode!StackPage \in Nat
        BY <3>1, <1>1, Facts DEF IInv, HeaderOK, Icode!RegionEnd
      <4>2. curva' \in Icode!StackPage .. Icode!StackPage + 1
        BY <4>1, <2>1, <1>1
      <4> QED BY <4>2, <3>1, <2>1, <2>8, <1>1 DEF IInv, HeaderOK, Loading
    <3>2. CASE ~ Icode!OnStack
      <4>1. ph \in Headers /\ curva \in Icode!RoundDown(binary.segs[ph].va) .. Icode!RegionEnd
        BY <3>2, <1>1, CurvaInRegion DEF IInv, HeaderOK
      <4>2. Icode!RoundDown(binary.segs[ph].va) \in Nat
        BY <4>1, SegmentFacts DEF IInv
      <4>3. curva' \in Icode!RoundDown(binary.segs[ph].va) .. Icode!RegionEnd
        BY <4>1, <4>2, <2>1, <2>2, <1>1
      <4> QED BY <4>3, <3>2, <2>1, <2>8, <1>1 DEF IInv, HeaderOK, Loading
    <3> QED BY <3>1, <3>2
  <2>10. MappedOK'
    <3> SUFFICES /\ \A v \in Pages : pagemap'[v] # Icode!Unmapped =>
                      \/ v \in Region /\ v < curva + 1
                      \/ \E j \in Headers : j < ph /\ binary.segs[j].load /\ v \in Icode!Span(binary.segs[j])
                 /\ \A v \in Region : v < curva + 1 => pagemap'[v] # Icode!Unmapped \/ free' = <<>>
      BY <2>1, <2>8 DEF MappedOK, Headers, Icode!Span, Icode!RoundDown, Icode!EndPage, Pages
    <3>1. /\ \A v \in Pages : pagemap[v] # Icode!Unmapped =>
               \/ v \in Region /\ v < curva
               \/ \E j \in Headers : j < ph /\ binary.segs[j].load /\ v \in Icode!Span(binary.segs[j])
          /\ \A v \in Region : v < curva => pagemap[v] # Icode!Unmapped
      BY <1>1, <1>3 DEF IInv, MappedOK
    <3>2. \A v \in Region : v \in Pages /\ v \in Nat
      BY <1>1, CurvaInRegion DEF Pages
    <3>3. \A v \in Pages : v < curva + 1 <=> (v < curva \/ v = curva)
      BY <1>1 DEF Pages
    <3> QED BY <3>1, <3>2, <3>3, <2>2, <2>6, <2>7
  <2>11. CopiedOK'
    <3> SUFFICES ASSUME NEW j \in Headers, j < ph, binary.segs[j].load
                 PROVE  Loaded(binary.segs[j], pagemap', mem')
      BY <2>1 DEF CopiedOK, Headers
    <3>1. Loaded(binary.segs[j], pagemap, mem)
      BY <1>1 DEF IInv, CopiedOK
    <3>2. curva \notin Icode!Span(binary.segs[j]) /\ Icode!Span(binary.segs[j]) \subseteq Pages
      BY <2>2, <1>1, CurvaInRegion, SegmentFacts DEF IInv
    <3>3. \A v \in Icode!Span(binary.segs[j]) : pagemap'[v] = pagemap[v] /\ mem'[pagemap[v]] = mem[pagemap[v]]
      BY <3>2, <2>6, <2>1
    <3> QED BY <3>1, <3>3, LoadedStays DEF IInv
  <2>12. Icode!PanicsOnlyForMemory'
    BY <2>1, <1>1 DEF Icode!PanicsOnlyForMemory
  <2> QED BY <2>3, <2>4, <2>9, <2>10, <2>11, <2>12 DEF IInv
<1> QED BY <1>2, <1>3

\* After CopySegment the frames of the segment hold it, and no other frame changes.
LEMMA CopySegmentKeeps ==
  ASSUME Icode!LoadIcodeAssumption, IInv, Icode!CopySegment
  PROVE  IInv'
<1> DEFINE seg == binary.segs[ph]
           pages == {va \div PageCells : va \in seg.va .. seg.va + seg.memsz - 1}
<1>1. icodepc = "region_alloc" /\ curva >= Icode!RegionEnd /\ ~ Icode!OnStack /\ Loading
  BY DEF Icode!CopySegment, Loading
<1>2. /\ ph \in Headers /\ seg.load /\ seg.filesz <= seg.memsz
      /\ Region = Icode!Span(seg) /\ pages = Icode!Span(seg) /\ Icode!Span(seg) \subseteq Pages
      /\ \A v \in Pages : v \in Region => v < curva
  <2>1. ph \in Headers /\ seg.load
    BY <1>1, CurvaInRegion
  <2>2. seg.filesz <= seg.memsz /\ Region = Icode!Span(seg)
    BY <1>1 DEF IInv, HeaderOK, Region
  <2>3. pages = Icode!Span(seg) /\ Icode!Span(seg) \subseteq Pages
    BY <2>1, CellsOfSpan, SegmentFacts DEF IInv
  <2>4. ASSUME NEW v \in Pages, v \in Region PROVE v < curva
    <3>1. v < Icode!RegionEnd /\ v \in Nat /\ Icode!RegionEnd \in Nat /\ curva \in Nat
      BY <2>4, <1>1, CurvaInRegion DEF Pages, IInv, TypeOK
    <3> QED BY <3>1, <1>1
  <2> QED BY <2>1, <2>2, <2>3, <2>4
<1>3. CASE \E v \in pages : pagemap[v] = Icode!Unmapped
  <2>1. icodepc' = "panic" /\ UNCHANGED <<binary, free, tables, pagemap, mem, icodecr3, ph, curva, eip>>
    BY <1>3 DEF Icode!CopySegment, Icode!Panic
  <2>2. PICK v \in Icode!Span(seg) : pagemap[v] = Icode!Unmapped
    BY <1>2, <1>3
  <2>3. free = <<>>
    BY <2>2, <1>1, <1>2 DEF IInv, MappedOK
  <2> QED BY <2>1, <2>3 DEF IInv, TypeOK, FramesOK, HeaderOK, MappedOK, CopiedOK,
    Icode!PanicsOnlyForMemory, Loading, Pages
<1>4. CASE \A v \in pages : pagemap[v] # Icode!Unmapped
  <2> DEFINE Page(p) == CHOOSE v \in pages : pagemap[v] = p
  <2>1. /\ mem' = [p \in DOMAIN mem |->
                    IF \E v \in pages : pagemap[v] = p
                    THEN [x \in 0 .. PageCells - 1 |-> Icode!Contents(seg, Page(p) * PageCells + x, mem[p][x])]
                    ELSE mem[p]]
        /\ Icode!NextHeader(ph + 1)
        /\ eip' = IF ph' > Len(binary.segs) THEN binary.entry ELSE eip
        /\ UNCHANGED <<binary, free, tables, pagemap, icodecr3>>
    BY <1>1, <1>4 DEF Icode!CopySegment
  <2>2. /\ PageCells \in Nat \ {0} /\ pagemap \in [Pages -> 0 .. Frames] /\ Frames \in Nat
        /\ mem \in [1 .. Frames -> [0 .. PageCells - 1 -> Int]]
        /\ seg.va \in Nat /\ seg.memsz \in Nat \ {0} /\ seg.filesz \in Nat /\ seg.offset \in Nat
    BY <1>2, Facts, SegmentFacts DEF IInv, TypeOK
  <2>3. ASSUME NEW v \in Icode!Span(seg)
        PROVE  /\ v \in Pages /\ pagemap[v] \in 1 .. Frames
               /\ mem'[pagemap[v]] =
                    [x \in 0 .. PageCells - 1 |-> Icode!Contents(seg, v * PageCells + x, mem[pagemap[v]][x])]
    <3>1. v \in Pages /\ v \in pages /\ pagemap[v] # Icode!Unmapped
      BY <1>2, <1>4
    <3>2. pagemap[v] \in 1 .. Frames
      BY <3>1, <2>2 DEF Icode!Unmapped
    <3>3. Page(pagemap[v]) = v
      <4>1. \A w \in pages : pagemap[w] = pagemap[v] => w = v
        BY <3>1, <1>2 DEF IInv, FramesOK
      <4> HIDE DEF pages
      <4> QED BY <3>1, <4>1
    <3> HIDE DEF Page, pages
    <3> QED BY <3>1, <3>2, <3>3, <2>1, <2>2
  <2>4. ASSUME NEW p \in 1 .. Frames, \A v \in Icode!Span(seg) : pagemap[v] # p
        PROVE  mem'[p] = mem[p]
    <3> HIDE DEF Page, pages
    <3> QED BY <2>1, <2>2, <2>4, <1>2
  <2>5. mem' \in [1 .. Frames -> [0 .. PageCells - 1 -> Int]]
    <3>1. ASSUME NEW p \in 1 .. Frames
          PROVE  mem'[p] \in [0 .. PageCells - 1 -> Int]
      <4>1. CASE \A v \in Icode!Span(seg) : pagemap[v] # p
        BY <4>1, <2>4, <2>2
      <4>2. CASE \E v \in Icode!Span(seg) : pagemap[v] = p
        <5>1. PICK v \in Icode!Span(seg) : pagemap[v] = p
          BY <4>2
        <5>2. v \in Nat /\ mem'[p] = [x \in 0 .. PageCells - 1 |-> Icode!Contents(seg, v * PageCells + x, mem[p][x])]
          <6> HIDE DEF seg, pages, Page
          <6>1. v \in Pages /\ mem'[pagemap[v]] =
                  [x \in 0 .. PageCells - 1 |-> Icode!Contents(seg, v * PageCells + x, mem[pagemap[v]][x])]
            BY <2>3
          <6>2. v \in Nat
            BY <6>1 DEF Pages
          <6> QED BY <6>1, <6>2, <5>1, Zenon
        <5>3. \A x \in 0 .. PageCells - 1 : v * PageCells + x \in Int /\ mem[p][x] \in Int
          BY <5>2, <2>2
        <5>4. \A a, o \in Int : Icode!Contents(seg, a, o) \in Int
          <6> HIDE DEF seg
          <6> QED BY <2>2 DEF Icode!Contents, Icode!Zero
        <5> HIDE DEF seg
        <5> QED BY <5>2, <5>3, <5>4
      <4> QED BY <4>1, <4>2
    <3>2. DOMAIN mem' = 1 .. Frames /\ mem' = [p \in DOMAIN mem' |-> mem'[p]]
      <4> HIDE DEF Page, pages
      <4> QED BY <2>1, <2>2
    <3> QED BY <3>1, <3>2
  <2>6. Loaded(seg, pagemap, mem')
    <3> SUFFICES ASSUME NEW k \in 0 .. seg.memsz - 1
                 PROVE  /\ pagemap[Icode!RoundDown(seg.va + k)] # Icode!Unmapped
                        /\ mem'[pagemap[Icode!RoundDown(seg.va + k)]][(seg.va + k) % PageCells]
                             = IF k < seg.filesz THEN seg.offset + k ELSE Icode!Zero
      BY DEF Loaded
    <3> DEFINE v == Icode!RoundDown(seg.va + k)
               x == (seg.va + k) % PageCells
    <3>1. v \in Icode!Span(seg)
      BY <1>2, CellsOfSpan DEF IInv
    <3>2. seg.va + k \in Nat /\ k \in Nat
      BY <2>2
    <3>3. v \in Nat /\ x \in 0 .. PageCells - 1 /\ seg.va + k = v * PageCells + x
      BY <3>2, <2>2, Division DEF Icode!RoundDown
    <3>4. pagemap[v] # Icode!Unmapped
          /\ mem'[pagemap[v]][x] = Icode!Contents(seg, seg.va + k, mem[pagemap[v]][x])
      <4>1. pagemap[v] \in 1 .. Frames
            /\ mem'[pagemap[v]] =
                 [y \in 0 .. PageCells - 1 |-> Icode!Contents(seg, v * PageCells + y, mem[pagemap[v]][y])]
        BY <2>3, <3>1
      <4> HIDE DEF v, x, seg
      <4>2. mem'[pagemap[v]][x] = Icode!Contents(seg, v * PageCells + x, mem[pagemap[v]][x])
        BY <4>1, <3>3
      <4> QED BY <4>1, <4>2, <3>3 DEF Icode!Unmapped
    <3>5. \A o : Icode!Contents(seg, seg.va + k, o) = IF k < seg.filesz THEN seg.offset + k ELSE Icode!Zero
      <4>1. /\ seg.va + k \in seg.va .. seg.va + seg.filesz - 1 <=> k < seg.filesz
            /\ seg.va + k \in seg.va + seg.filesz .. seg.va + seg.memsz - 1 <=> ~ (k < seg.filesz)
            /\ seg.va + k - seg.va = k
        <5> DEFINE a == seg.va
                   f == seg.filesz
                   m == seg.memsz
        <5>1. a \in Nat /\ f \in Nat /\ m \in Nat /\ k \in 0 .. m - 1
          BY <2>2
        <5> HIDE DEF a, f, m
        <5>2. /\ a + k \in a .. a + f - 1 <=> k < f
              /\ a + k \in a + f .. a + m - 1 <=> ~ (k < f)
              /\ a + k - a = k
          BY <5>1
        <5> QED BY <5>2 DEF a, f, m
      <4> HIDE DEF seg
      <4> QED BY <4>1, <2>2 DEF Icode!Contents
    <3> QED BY <3>4, <3>5
  <2>7. ASSUME NEW j \in Headers, j < ph + 1, binary.segs[j].load
        PROVE  Loaded(binary.segs[j], pagemap, mem')
    <3>1. CASE j = ph
      BY <3>1, <2>6
    <3>2. CASE j # ph
      <4>1. j < ph
        BY <2>7, <3>2, <1>1, CurvaInRegion
      <4>2. Icode!Span(binary.segs[j]) \cap Icode!Span(seg) = {} /\ Icode!Span(binary.segs[j]) \subseteq Pages
        BY <4>1, <2>7, <1>1, <1>2, CurvaInRegion, SegmentFacts DEF IInv
      <4>3. Loaded(binary.segs[j], pagemap, mem)
        BY <4>1, <2>7, <1>1 DEF IInv, CopiedOK
      <4>4. \A v \in Icode!Span(binary.segs[j]) : mem'[pagemap[v]] = mem[pagemap[v]]
        <5> TAKE v \in Icode!Span(binary.segs[j])
        <5>1. v \in Pages /\ v \notin Icode!Span(seg)
          BY <4>2
        <5>2. pagemap[v] # Icode!Unmapped
          BY <4>3, <2>7, LoadedIsMapped DEF IInv
        <5>3. pagemap[v] \in 1 .. Frames
          BY <5>1, <5>2, <2>2 DEF Icode!Unmapped
        <5>4. \A w \in Icode!Span(seg) : pagemap[w] # pagemap[v]
          BY <5>1, <5>2, <1>2 DEF IInv, FramesOK
        <5> QED BY <5>3, <5>4, <2>4
      <4> QED BY <4>3, <4>4, <2>7, LoadedStays DEF IInv
    <3> QED BY <3>1, <3>2
  <2>8. ph + 1 \in 1 .. Len(binary.segs) + 1 /\ Headers = 1 .. Len(binary.segs) /\ ph \in Nat
    BY <1>2, Facts DEF IInv
  <2>9. ph' \in 1 .. Len(binary.segs) + 1 /\ icodepc' \in {"region_alloc", "panic"} /\ curva' \in Nat
    <3>1. /\ ph' \in ph + 1 .. Len(binary.segs) + 1
          /\ ph' <= Len(binary.segs) => ph' \in Headers
          /\ IF ph' > Len(binary.segs) THEN icodepc' = "region_alloc" /\ curva' = Icode!StackPage
             ELSE IF binary.segs[ph'].filesz > binary.segs[ph'].memsz THEN icodepc' = "panic" /\ UNCHANGED curva
             ELSE icodepc' = "region_alloc" /\ curva' = Icode!RoundDown(binary.segs[ph'].va)
      BY <2>1, <2>8, NextLoadable DEF IInv
    <3> QED BY <3>1, <2>8, Facts, SegmentFacts DEF IInv, TypeOK
  <2>10. TypeOK' /\ FramesOK'
    <3> HIDE DEF seg, pages, Page
    <3>1. binary' = binary /\ free' = free /\ pagemap' = pagemap
      BY <2>1
    <3>2. ph' \in Nat
      BY <2>9, <2>8
    <3> QED BY <3>1, <3>2, <2>5, <2>9 DEF IInv, TypeOK, FramesOK, Pages
  <2>11. \A v \in Pages : pagemap[v] # Icode!Unmapped =>
           \E j \in Headers : j < ph + 1 /\ binary.segs[j].load /\ v \in Icode!Span(binary.segs[j])
    <3> TAKE v \in Pages
    <3> HAVE pagemap[v] # Icode!Unmapped
    <3>1. \/ v \in Region
          \/ \E j \in Headers : j < ph /\ binary.segs[j].load /\ v \in Icode!Span(binary.segs[j])
      BY <1>1 DEF IInv, MappedOK
    <3>2. \A j \in Headers : j < ph => j < ph + 1
      BY <2>8
    <3>3. ph < ph + 1
      BY <2>8
    <3> QED BY <3>1, <3>2, <3>3, <1>2
  <2>12. binary.elf /\ binary' = binary /\ pagemap' = pagemap
    BY <2>1, <1>1 DEF IInv, HeaderOK
  <2>13. HeaderOK' /\ MappedOK' /\ CopiedOK' /\ Icode!PanicsOnlyForMemory'
    <3> HIDE DEF seg, pages, Page
    <3> QED BY <2>1, <2>7, <2>8, <2>10, <2>11, <2>12, HeaderStep DEF IInv
  <2> QED BY <2>10, <2>13 DEF IInv
<1> QED BY <1>3, <1>4

LEMMA FinishKeeps ==
  ASSUME Icode!LoadIcodeAssumption, IInv, Icode!Finish
  PROVE  IInv'
<1>1. /\ icodepc = "region_alloc" /\ Icode!OnStack /\ icodecr3' = "kern_pgdir" /\ icodepc' = "created"
      /\ UNCHANGED <<binary, free, tables, pagemap, mem, ph, curva, eip>>
      /\ Loading /\ Loading'
  BY DEF Icode!Finish, Loading
<1>2. TypeOK' /\ FramesOK' /\ Icode!PanicsOnlyForMemory'
  BY <1>1 DEF IInv, TypeOK, FramesOK, Icode!PanicsOnlyForMemory, Pages
<1>3. HeaderOK'
  BY <1>1 DEF IInv, HeaderOK, Icode!OnStack, Icode!RegionEnd, Loading
<1>4. MappedOK' /\ CopiedOK'
  BY <1>1 DEF IInv, MappedOK, CopiedOK, Region, Icode!OnStack, Headers, Pages
<1> QED BY <1>2, <1>3, <1>4 DEF IInv

LEMMA NextKeeps ==
  ASSUME Icode!LoadIcodeAssumption, IInv, [Icode!Next]_(Icode!vars)
  PROVE  IInv'
<1>1. CASE Icode!Begin
  BY <1>1, BeginKeeps
<1>2. CASE Icode!RegionPage
  BY <1>2, RegionPageKeeps
<1>3. CASE Icode!CopySegment
  BY <1>3, CopySegmentKeeps
<1>4. CASE Icode!Finish
  BY <1>4, FinishKeeps
<1>5. CASE UNCHANGED Icode!vars
  BY <1>5 DEF Icode!vars, IInv, TypeOK, FramesOK, HeaderOK, MappedOK, CopiedOK, Icode!PanicsOnlyForMemory,
              Pages, Loading, Headers, Icode!OnStack, Region, Icode!RegionEnd, Icode!Loads
<1> QED BY <1>1, <1>2, <1>3, <1>4, <1>5 DEF Icode!Next

LEMMA AsLinkedThen ==
  ASSUME Icode!LoadIcodeAssumption, IInv
  PROVE  Icode!ProgramAsLinked
<1> SUFFICES ASSUME icodepc = "created" PROVE Icode!ProgramAsLinked
  BY DEF Icode!ProgramAsLinked
<1>1. /\ Icode!OnStack /\ icodecr3 = "kern_pgdir" /\ eip = binary.entry /\ ph \in 1 .. Len(binary.segs) + 1
      /\ Headers = 1 .. Len(binary.segs) /\ Len(binary.segs) \in Nat
      /\ DOMAIN pagemap = Pages /\ Icode!StackPage \in Pages
  BY Facts DEF IInv, HeaderOK, Loading, TypeOK
<1>2. \A j \in Headers : j < ph
  BY <1>1 DEF Icode!OnStack
<1>3. \A j \in Headers : binary.segs[j].load => Loaded(binary.segs[j], pagemap, mem)
  BY <1>2 DEF IInv, CopiedOK, Loading
<1>4. \A s \in Icode!Loads : \E j \in Headers : s = binary.segs[j] /\ binary.segs[j].load
  BY DEF Icode!Loads, Headers
<1>5. \A j \in Headers : binary.segs[j].load => binary.segs[j] \in Icode!Loads
  BY DEF Icode!Loads, Headers
<1>6. \A s \in Icode!Loads : \A k \in 0 .. s.memsz - 1 :
        LET va == s.va + k IN
        /\ pagemap[va \div PageCells] # Icode!Unmapped
        /\ mem[pagemap[va \div PageCells]][va % PageCells] = IF k < s.filesz THEN s.offset + k ELSE Icode!Zero
  BY <1>3, <1>4 DEF Loaded, Icode!RoundDown
<1>7. \A j \in Headers : binary.segs[j].load =>
        {va \div PageCells : va \in binary.segs[j].va .. binary.segs[j].va + binary.segs[j].memsz - 1}
          = Icode!Span(binary.segs[j])
  BY CellsOfSpan DEF IInv
<1>8. Icode!Touched = {Icode!StackPage} \cup UNION {Icode!Span(s) : s \in Icode!Loads}
  <2>1. \A s \in Icode!Loads : {va \div PageCells : va \in s.va .. s.va + s.memsz - 1} = Icode!Span(s)
    BY <1>4, <1>7
  <2> QED BY <2>1 DEF Icode!Touched
<1>9. {v \in DOMAIN pagemap : pagemap[v] # Icode!Unmapped} \cup {Icode!StackPage} = Icode!Touched
  <2>1. ASSUME NEW v \in Pages, pagemap[v] # Icode!Unmapped PROVE v \in Icode!Touched
    <3>1. \/ v \in Region
          \/ \E j \in Headers : j < ph /\ binary.segs[j].load /\ v \in Icode!Span(binary.segs[j])
      BY <2>1 DEF IInv, MappedOK, Loading
    <3> QED BY <3>1, <1>1, <1>5, <1>8 DEF Region
  <2>2. ASSUME NEW s \in Icode!Loads, NEW v \in Icode!Span(s) PROVE v \in Pages /\ pagemap[v] # Icode!Unmapped
    <3>1. PICK j \in Headers : s = binary.segs[j] /\ binary.segs[j].load
      BY <1>4
    <3> QED BY <3>1, <2>2, <1>3, LoadedIsMapped, SegmentFacts DEF IInv
  <2> QED BY <2>1, <2>2, <1>1, <1>8
<1>10. /\ \A v, w \in DOMAIN pagemap : pagemap[v] # Icode!Unmapped /\ pagemap[w] = pagemap[v] => v = w
       /\ \A v \in DOMAIN pagemap : \A j \in DOMAIN free : free[j] # pagemap[v]
  BY <1>1 DEF IInv, FramesOK
<1> QED BY <1>1, <1>6, <1>9, <1>10 DEF Icode!ProgramAsLinked

\* What env_create makes is the program as it was linked, and it gives up only on
\* a bad binary or for want of pages, for pages and programs of any size.
THEOREM ProgramsAreLoaded ==
  ASSUME Icode!LoadIcodeAssumption
  PROVE  Icode!Spec => [](Icode!ProgramAsLinked /\ Icode!PanicsOnlyForMemory)
<1>1. Icode!Init => IInv
  BY InitHolds
<1>2. IInv /\ [Icode!Next]_(Icode!vars) => IInv'
  BY NextKeeps
<1>3. IInv => Icode!ProgramAsLinked /\ Icode!PanicsOnlyForMemory
  BY AsLinkedThen DEF IInv
<1> QED BY <1>1, <1>2, <1>3, PTL DEF Icode!Spec

-----------------------------------------------------------------------------
(* The kernel: BootLoader *)

\* Where the file's cell that belongs at address a is: at a - Shift.
Start == IF header = 0 THEN ELFHDR ELSE image.segs[header].pa
Shift == IF header = 0 THEN ELFHDR ELSE image.segs[header].pa - image.segs[header].offset
First == Start - (Start % SECTSIZE)
Reading == bootpc \in {"readseg", "waitdisk"}

DiskTypeOK ==
  /\ image \in Images
  /\ bootpc \in {"seta20.1", "seta20.2", "bootmain", "readseg", "waitdisk", "entry", "kernel", "bad"}
  /\ ram \in [0 .. MemCells - 1 -> Int] /\ line \in BOOLEAN
  /\ kbc \in [busy : BOOLEAN, byte : {"other", "d1", "df"}] /\ drive \in [busy : BOOLEAN, lba : Nat]
  /\ header \in 0 .. Len(image.segs) /\ pa \in Nat /\ offset \in Nat
  /\ bootpc = "entry" => header = Len(image.segs)

\* After the last command to the 8042 the line is open, or will be before the disk
\* has answered once.
LineOK ==
  /\ bootpc \notin {"seta20.1", "seta20.2"} => line \/ (kbc.busy /\ kbc.byte = "df")
  /\ bootpc = "waitdisk" /\ ~ drive.busy => line
  /\ Reading /\ (header > 0 \/ pa > ELFHDR) => line

\* readseg is between two sectors, in memory and on the disk, and has read those before.
ReadOK ==
  Reading =>
    /\ pa % SECTSIZE = 0 /\ pa >= First
    /\ offset > 0 /\ (offset - 1) * SECTSIZE = pa - Shift
    /\ \A a \in 0 .. MemCells - 1 : a >= First /\ a < pa => ram[a] = a - Shift
    /\ bootpc = "waitdisk" => drive.lba = offset /\ pa < Disk!EndPa

\* The segments that were read stay as they were read until the bss is cleared.
SegsOK ==
  bootpc # "kernel" =>
    \A i \in DOMAIN image.segs : i < header \/ (i = header /\ bootpc = "entry") =>
      \A a \in Disk!Cells(image.segs[i]) : ram[a] = a - (image.segs[i].pa - image.segs[i].offset)

DiskInv == DiskTypeOK /\ LineOK /\ ReadOK /\ SegsOK /\ Disk!LoaderIntact /\ Disk!KernelAsLinked

-----------------------------------------------------------------------------

LEMMA Small ==
  ASSUME NEW p \in Nat \ {0}, NEW x \in 0 .. p - 1
  PROVE  x % p = x /\ x \div p = 0
OBVIOUS

LEMMA TimesMonotone ==
  ASSUME NEW p \in Nat, NEW m \in Nat, NEW n \in Nat, m <= n
  PROVE  m * p <= n * p /\ m * p \in Nat /\ n * p \in Nat
OBVIOUS

LEMMA AddMultiple ==
  ASSUME NEW p \in Nat \ {0}, NEW a \in Nat, NEW n \in Nat, a % p = 0
  PROVE  (a + n * p) % p = 0
<1>1. a = (a \div p) * p /\ a \div p \in Nat
  BY Division
<1> DEFINE m == a \div p
<1> HIDE DEF m
<1>2. m \in Nat /\ a = m * p
  BY <1>1 DEF m
<1>3. a + n * p = (m + n) * p + 0 /\ m + n \in Nat /\ a + n * p \in Nat
  BY <1>2
<1> QED BY <1>3, InPage

LEMMA NextMultiple ==
  ASSUME NEW p \in Nat \ {0}, NEW a \in Nat, a % p = 0
  PROVE  (a + p) % p = 0
<1>1. (a + 1 * p) % p = 0
  BY AddMultiple
<1>2. a + 1 * p = a + p
  OBVIOUS
<1> QED BY <1>1, <1>2

LEMMA RoundedDown ==
  ASSUME NEW p \in Nat \ {0}, NEW a \in Nat
  PROVE  /\ a - (a % p) \in Nat /\ (a - (a % p)) % p = 0 /\ a - (a % p) <= a
         /\ a - (a % p) = (a \div p) * p
OBVIOUS

\* A multiple of p below or at a is below or at the multiple that a is rounded down to.
LEMMA RoundedAbove ==
  ASSUME NEW p \in Nat \ {0}, NEW a \in Nat, NEW d \in Nat, d <= a, d % p = 0
  PROVE  d <= a - (a % p)
<1>1. d \div p \in Nat /\ a \div p \in Nat /\ d = (d \div p) * p
  BY Division
<1>2. d \div p <= a \div p
  BY Monotone
<1>3. (d \div p) * p <= (a \div p) * p
  BY <1>1, <1>2, TimesMonotone
<1> QED BY <1>1, <1>3, RoundedDown

LEMMA MultiplesApart ==
  ASSUME NEW p \in Nat \ {0}, NEW a \in Nat, NEW d \in Nat, a < d, a % p = 0, d % p = 0
  PROVE  a + p <= d
<1> DEFINE m == a \div p
           n == d \div p
<1>1. m \in Nat /\ n \in Nat /\ a = m * p /\ d = n * p
  BY Division
<1> HIDE DEF m, n
<1>2. m < n
  <2>1. n <= m => n * p <= m * p
    BY <1>1, TimesMonotone
  <2> QED BY <2>1, <1>1
<1>3. (m + 1) * p <= n * p
  BY <1>1, <1>2, TimesMonotone
<1>4. (m + 1) * p = m * p + p
  BY <1>1
<1> QED BY <1>1, <1>3, <1>4

LEMMA SameSector ==
  ASSUME NEW p \in Nat \ {0}, NEW d \in Nat, d % p = 0, NEW a \in d .. d + p - 1
  PROVE  a \div p = d \div p
OBVIOUS

-----------------------------------------------------------------------------

LEMMA DiskFacts ==
  ASSUME Disk!BootLoaderAssumption, DiskTypeOK
  PROVE  /\ SECTSIZE \in Nat \ {0} /\ HdrSectors \in Nat \ {0} /\ MemCells \in Nat
         /\ A20 \in Nat \ {0} /\ A20 % SECTSIZE = 0 /\ A20 < MemCells
         /\ ELFHDR \in Nat /\ ELFHDR % SECTSIZE = 0
         /\ Disk!HdrEnd \in Nat /\ Disk!HdrEnd % SECTSIZE = 0 /\ Disk!HdrEnd <= A20 /\ ELFHDR < Disk!HdrEnd
         /\ \A a \in BootCells : a \in 0 .. A20 - 1 /\ a \notin ELFHDR .. Disk!HdrEnd - 1
         /\ Len(image.segs) \in Nat /\ DOMAIN image.segs = 1 .. Len(image.segs)
         /\ image.edata \in Nat /\ image.edata >= A20 /\ image.end \in Nat
<1>1. /\ SECTSIZE \in Nat \ {0} /\ HdrSectors \in Nat \ {0} /\ MemCells \in Nat
      /\ A20 \in Nat \ {0} /\ A20 % SECTSIZE = 0 /\ A20 < MemCells
      /\ ELFHDR \in Nat /\ ELFHDR % SECTSIZE = 0 /\ Disk!HdrEnd <= A20
      /\ BootCells \subseteq 0 .. A20 - 1 /\ BootCells \cap (ELFHDR .. Disk!HdrEnd - 1) = {}
  BY DEF Disk!BootLoaderAssumption
<1>2. Disk!HdrEnd \in Nat /\ ELFHDR < Disk!HdrEnd
  <2>1. 1 * SECTSIZE <= HdrSectors * SECTSIZE /\ HdrSectors * SECTSIZE \in Nat
    BY <1>1, TimesMonotone
  <2> QED BY <2>1, <1>1 DEF Disk!HdrEnd
<1>3. Disk!HdrEnd % SECTSIZE = 0
  BY <1>1, AddMultiple DEF Disk!HdrEnd
<1>4. image \in Images
  BY DEF DiskTypeOK
<1>5. /\ image.segs \in Seq([pa : Nat, offset : Nat, filesz : Nat, memsz : Nat])
      /\ image.edata \in Nat /\ image.edata >= A20 /\ image.end \in Nat
  BY <1>4 DEF Disk!BootLoaderAssumption
<1> QED BY <1>1, <1>2, <1>3, <1>5

LEMMA SegFacts ==
  ASSUME Disk!BootLoaderAssumption, DiskTypeOK, NEW i \in DOMAIN image.segs
  PROVE  LET seg == image.segs[i] IN
         /\ seg.pa \in Nat /\ seg.offset \in Nat /\ seg.filesz \in Nat /\ seg.memsz \in Nat
         /\ seg.memsz > 0 /\ seg.filesz <= seg.memsz /\ seg.pa >= A20 /\ seg.pa + seg.memsz <= MemCells
         /\ seg.pa % SECTSIZE = seg.offset % SECTSIZE
         /\ \A a \in Disk!Cells(seg) : a \in image.edata .. image.end - 1 <=> a >= seg.pa + seg.filesz
         /\ \A a \in Disk!Cells(seg) : a \in 0 .. MemCells - 1 /\ a >= A20
         /\ \A j \in DOMAIN image.segs :
              Disk!Cells(seg) \cap Disk!Sectors(image.segs[j]) # {} =>
                seg.pa - seg.offset = image.segs[j].pa - image.segs[j].offset
<1>1. image \in Images
  BY DEF DiskTypeOK
<1>2. image.segs \in Seq([pa : Nat, offset : Nat, filesz : Nat, memsz : Nat])
  BY <1>1 DEF Disk!BootLoaderAssumption
<1>3. image.segs[i] \in [pa : Nat, offset : Nat, filesz : Nat, memsz : Nat]
  BY <1>2, ElementOfSequence
<1> DEFINE seg == image.segs[i]
<1>4. /\ seg.memsz > 0 /\ seg.filesz <= seg.memsz /\ seg.pa >= A20 /\ seg.pa + seg.memsz <= MemCells
      /\ seg.pa % SECTSIZE = seg.offset % SECTSIZE
      /\ \A a \in Disk!Cells(seg) : a \in image.edata .. image.end - 1 <=> a >= seg.pa + seg.filesz
      /\ \A j \in DOMAIN image.segs :
           Disk!Cells(seg) \cap Disk!Sectors(image.segs[j]) # {} =>
             seg.pa - seg.offset = image.segs[j].pa - image.segs[j].offset
  BY <1>1 DEF Disk!BootLoaderAssumption
<1>5. seg.pa \in Nat /\ seg.offset \in Nat /\ seg.filesz \in Nat /\ seg.memsz \in Nat
  BY <1>3
<1>6. \A a \in Disk!Cells(seg) : a \in 0 .. MemCells - 1 /\ a >= A20
  <2>1. A20 \in Nat /\ MemCells \in Nat
    BY DiskFacts
  <2>2. Disk!Cells(seg) = seg.pa .. seg.pa + seg.memsz - 1
    BY DEF Disk!Cells
  <2> DEFINE from == seg.pa
             n == seg.memsz
  <2>3. from \in Nat /\ n \in Nat /\ from >= A20 /\ from + n <= MemCells
    BY <1>4, <1>5
  <2> HIDE DEF from, n
  <2>4. \A a \in from .. from + n - 1 : a \in 0 .. MemCells - 1 /\ a >= A20
    BY <2>1, <2>3
  <2> QED BY <2>2, <2>4 DEF from, n
<1> QED BY <1>4, <1>5, <1>6

\* The region that readseg reads.
LEMMA RegionFacts ==
  ASSUME Disk!BootLoaderAssumption, DiskTypeOK
  PROVE  /\ Start \in Nat /\ Shift \in Int /\ First \in Nat /\ First % SECTSIZE = 0 /\ Disk!EndPa \in Nat
         /\ First <= Start /\ Start < Disk!EndPa /\ Disk!EndPa <= MemCells
         /\ header = 0 => First = ELFHDR /\ Start = ELFHDR /\ Shift = ELFHDR /\ Disk!EndPa = Disk!HdrEnd
         /\ header > 0 => /\ header \in DOMAIN image.segs /\ Start = image.segs[header].pa /\ First >= A20
                      /\ Disk!EndPa = image.segs[header].pa + image.segs[header].memsz
                      /\ Disk!Cells(image.segs[header]) = Start .. Disk!EndPa - 1
                      /\ Shift = image.segs[header].pa - image.segs[header].offset
<1>1. CASE header = 0
  BY <1>1, DiskFacts DEF Start, Shift, First, Disk!EndPa
<1>2. CASE header # 0
  <2>1. header \in DOMAIN image.segs /\ header > 0
    BY <1>2, DiskFacts DEF DiskTypeOK
  <2> DEFINE seg == image.segs[header]
  <2>2. /\ seg.pa \in Nat /\ seg.offset \in Nat /\ seg.memsz \in Nat
        /\ seg.memsz > 0 /\ seg.pa >= A20 /\ seg.pa + seg.memsz <= MemCells
    BY <2>1, SegFacts
  <2>3. Start = seg.pa /\ Shift = seg.pa - seg.offset /\ Disk!EndPa = seg.pa + seg.memsz
        /\ First = seg.pa - (seg.pa % SECTSIZE) /\ Disk!Cells(seg) = seg.pa .. seg.pa + seg.memsz - 1
    BY <1>2 DEF Start, Shift, First, Disk!EndPa, Disk!Cells
  <2> HIDE DEF seg
  <2>4. First \in Nat /\ First % SECTSIZE = 0 /\ First <= seg.pa /\ First >= A20
    BY <2>2, <2>3, DiskFacts, RoundedDown, RoundedAbove
  <2>5. seg = image.segs[header]
    BY DEF seg
  <2> QED BY <2>1, <2>2, <2>3, <2>4, <2>5
<1> QED BY <1>1, <1>2

\* The state of readseg as it begins.
LEMMA ReadBegins ==
  ASSUME Disk!BootLoaderAssumption, DiskTypeOK, NEW to \in Nat, NEW off \in Nat, Disk!Readseg(to, off),
         to % SECTSIZE = off % SECTSIZE
  PROVE  /\ pa' \in Nat /\ offset' \in Nat /\ offset' > 0 /\ pa' % SECTSIZE = 0
         /\ pa' = to - (to % SECTSIZE)
         /\ (offset' - 1) * SECTSIZE = pa' - (to - off)
<1>1. pa' = to - (to % SECTSIZE) /\ offset' = (off \div SECTSIZE) + 1 /\ SECTSIZE \in Nat \ {0}
  BY DiskFacts DEF Disk!Readseg
<1>2. off = (off \div SECTSIZE) * SECTSIZE + (off % SECTSIZE) /\ off \div SECTSIZE \in Nat
      /\ off % SECTSIZE \in Nat
  <2>1. off % SECTSIZE \in 0 .. SECTSIZE - 1
    BY <1>1, Division
  <2>2. off = (off \div SECTSIZE) * SECTSIZE + (off % SECTSIZE) /\ off \div SECTSIZE \in Nat
    BY <1>1, Division
  <2>3. off % SECTSIZE \in Nat
    BY <1>1, <2>1
  <2> QED BY <2>2, <2>3
<1>3. pa' \in Nat /\ pa' % SECTSIZE = 0
  BY <1>1, RoundedDown
<1> DEFINE n == off \div SECTSIZE
           r == off % SECTSIZE
<1>4. offset' - 1 = n /\ offset' \in Nat /\ offset' > 0
  BY <1>1, <1>2
<1>5. pa' = to - r /\ off = n * SECTSIZE + r /\ n \in Nat /\ r \in Nat
  BY <1>1, <1>2
<1> HIDE DEF n, r
<1>6. n * SECTSIZE = pa' - (to - off)
  BY <1>1, <1>5
<1> QED BY <1>1, <1>3, <1>4, <1>6

\* One sector is read, to the addresses that are meant.
LEMMA SectorRead ==
  ASSUME Disk!BootLoaderAssumption, DiskInv, Disk!Insl
  PROVE  /\ line /\ bootpc = "waitdisk" /\ pa < Disk!EndPa /\ pa >= First /\ pa % SECTSIZE = 0
         /\ ram' \in [0 .. MemCells - 1 -> Int]
         /\ \A a \in 0 .. MemCells - 1 : ram'[a] = IF a \in pa .. pa + SECTSIZE - 1 THEN a - Shift ELSE ram[a]
<1>1. /\ bootpc = "waitdisk" /\ ~ drive.busy
      /\ ram' = LET target == {Disk!OnBus(a) : a \in pa .. pa + SECTSIZE - 1} IN
                [a \in DOMAIN ram |->
                   IF a \in target THEN Disk!Sector(drive.lba, (a - pa) % SECTSIZE) ELSE ram[a]]
  BY DEF Disk!Insl
<1>2. /\ line /\ pa < Disk!EndPa /\ pa >= First /\ pa % SECTSIZE = 0 /\ drive.lba = offset
      /\ offset > 0 /\ (offset - 1) * SECTSIZE = pa - Shift /\ offset \in Nat /\ pa \in Nat
  BY <1>1 DEF DiskInv, LineOK, ReadOK, Reading, DiskTypeOK
<1>3. {Disk!OnBus(a) : a \in pa .. pa + SECTSIZE - 1} = pa .. pa + SECTSIZE - 1
  BY <1>2 DEF Disk!OnBus
<1>4. SECTSIZE \in Nat \ {0} /\ Shift \in Int /\ ram \in [0 .. MemCells - 1 -> Int]
  BY DiskFacts, RegionFacts DEF DiskInv, DiskTypeOK
<1>5. ASSUME NEW a \in pa .. pa + SECTSIZE - 1
      PROVE  Disk!Sector(drive.lba, (a - pa) % SECTSIZE) = a - Shift
  <2>1. a - pa \in 0 .. SECTSIZE - 1
    BY <1>2, <1>4
  <2>2. (a - pa) % SECTSIZE = a - pa
    BY <2>1, <1>4, Small
  <2>3. Disk!Sector(drive.lba, (a - pa) % SECTSIZE) = (offset - 1) * SECTSIZE + (a - pa)
    BY <2>2, <1>2 DEF Disk!Sector
  <2>4. a \in Int /\ pa \in Int
    BY <1>2, <1>4
  <2> QED BY <2>3, <2>4, <1>2, <1>4
<1>6. ram' = [a \in 0 .. MemCells - 1 |-> IF a \in pa .. pa + SECTSIZE - 1 THEN a - Shift ELSE ram[a]]
  BY <1>1, <1>3, <1>4, <1>5
<1>7. \A a \in 0 .. MemCells - 1 : a - Shift \in Int
  BY <1>4
<1>8. ram' \in [0 .. MemCells - 1 -> Int]
  <2>1. \A a \in 0 .. MemCells - 1 : ram[a] \in Int
    BY <1>4
  <2> QED BY <2>1, <1>6, <1>7
<1>9. \A a \in 0 .. MemCells - 1 : ram'[a] = IF a \in pa .. pa + SECTSIZE - 1 THEN a - Shift ELSE ram[a]
  BY <1>6
<1> QED BY <1>1, <1>2, <1>8, <1>9

\* A sector of a segment is one of those its cells lie on.
LEMMA SectorOfSegment ==
  ASSUME Disk!BootLoaderAssumption, DiskTypeOK, header > 0, pa < Disk!EndPa, pa >= First, pa % SECTSIZE = 0,
         NEW a \in 0 .. MemCells - 1, a \in pa .. pa + SECTSIZE - 1
  PROVE  a \in Disk!Sectors(image.segs[header]) /\ a >= A20
<1>1. /\ SECTSIZE \in Nat \ {0} /\ pa \in Nat /\ Start \in Nat /\ First \in Nat
      /\ Disk!EndPa \in Nat /\ A20 \in Nat
      /\ First = Start - (Start % SECTSIZE) /\ First % SECTSIZE = 0 /\ Start < Disk!EndPa /\ First >= A20
      /\ Disk!Cells(image.segs[header]) = Start .. Disk!EndPa - 1
  BY DiskFacts, RegionFacts DEF DiskTypeOK, First
<1>2. \E x \in Disk!Cells(image.segs[header]) : x \in pa .. pa + SECTSIZE - 1
  <2>1. CASE pa >= Start
    <3>1. pa \in Start .. Disk!EndPa - 1 /\ pa \in pa .. pa + SECTSIZE - 1
      <4>1. pa \in Nat /\ Start \in Nat /\ Disk!EndPa \in Nat /\ SECTSIZE \in Nat \ {0}
        BY <1>1
      <4> QED BY <2>1, <4>1
    <3> QED BY <3>1, <1>1
  <2>2. CASE pa < Start
    <3>1. Start % SECTSIZE \in 0 .. SECTSIZE - 1
      BY <1>1, Division
    <3>2. Start < First + SECTSIZE
      BY <3>1, <1>1
    <3>3. Start < pa + SECTSIZE
      BY <3>2, <1>1
    <3>4. Start \in Disk!Cells(image.segs[header])
      BY <1>1
    <3>5. Start \in pa .. pa + SECTSIZE - 1
      BY <3>3, <2>2, <1>1
    <3> QED BY <3>4, <3>5
  <2> QED BY <2>1, <2>2, <1>1
<1>3. \A x \in pa .. pa + SECTSIZE - 1 : x \div SECTSIZE = pa \div SECTSIZE
  BY <1>1, SameSector
<1>4. a >= A20
  BY <1>1
<1> QED BY <1>2, <1>3, <1>4 DEF Disk!Sectors

LEMMA InslKeeps ==
  ASSUME Disk!BootLoaderAssumption, DiskInv, Disk!Insl
  PROVE  DiskInv'
<1>1. /\ line /\ bootpc = "waitdisk" /\ pa < Disk!EndPa /\ pa >= First /\ pa % SECTSIZE = 0
      /\ ram' \in [0 .. MemCells - 1 -> Int]
      /\ \A a \in 0 .. MemCells - 1 : ram'[a] = IF a \in pa .. pa + SECTSIZE - 1 THEN a - Shift ELSE ram[a]
  BY SectorRead
<1>2. /\ pa' = pa + SECTSIZE /\ offset' = offset + 1 /\ bootpc' = "readseg"
      /\ UNCHANGED <<image, line, kbc, drive, header>>
  BY DEF Disk!Insl
<1>3. /\ SECTSIZE \in Nat \ {0} /\ pa \in Nat /\ offset \in Nat /\ MemCells \in Nat
      /\ Start \in Nat /\ First \in Nat /\ Disk!EndPa \in Nat /\ Shift \in Int /\ A20 \in Nat
  BY DiskFacts, RegionFacts DEF DiskInv, DiskTypeOK
<1>4. DiskTypeOK'
  BY <1>1, <1>2, <1>3 DEF DiskInv, DiskTypeOK
<1>5. LineOK'
  BY <1>1, <1>2 DEF DiskInv, LineOK
<1>6. Start' = Start /\ Shift' = Shift /\ First' = First
  BY <1>2 DEF Start, Shift, First
<1>7. ReadOK'
  <2>1. /\ offset > 0 /\ (offset - 1) * SECTSIZE = pa - Shift
        /\ \A a \in 0 .. MemCells - 1 : a >= First /\ a < pa => ram[a] = a - Shift
    BY <1>1 DEF DiskInv, ReadOK, Reading
  <2>2. (offset' - 1) * SECTSIZE = pa' - Shift
    <3>1. (offset' - 1) * SECTSIZE = (offset - 1) * SECTSIZE + SECTSIZE
      BY <1>2, <1>3
    <3> QED BY <3>1, <2>1, <1>2, <1>3
  <2>3. pa' % SECTSIZE = 0
    BY <1>1, <1>2, <1>3, NextMultiple
  <2>4. \A a \in 0 .. MemCells - 1 : a >= First /\ a < pa' => ram'[a] = a - Shift
    <3> TAKE a \in 0 .. MemCells - 1
    <3> HAVE a >= First /\ a < pa'
    <3>1. a < pa \/ a \in pa .. pa + SECTSIZE - 1
      BY <1>2, <1>3
    <3> QED BY <3>1, <2>1, <1>1
  <2>5. pa' >= First /\ offset' > 0
    BY <1>1, <1>2, <1>3
  <2> QED BY <2>2, <2>3, <2>4, <2>5, <1>2, <1>6 DEF ReadOK
<1>8. SegsOK'
  <2> SUFFICES ASSUME NEW i \in DOMAIN image.segs, i < header, NEW a \in Disk!Cells(image.segs[i])
               PROVE  ram'[a] = a - (image.segs[i].pa - image.segs[i].offset)
    BY <1>2 DEF SegsOK, Disk!Cells
  <2>1. ram[a] = a - (image.segs[i].pa - image.segs[i].offset)
    BY <1>1 DEF DiskInv, SegsOK
  <2>2. a \in 0 .. MemCells - 1
    BY SegFacts DEF DiskInv
  <2>3. CASE a \in pa .. pa + SECTSIZE - 1
    <3>1. header > 0
      BY DiskFacts DEF DiskInv, DiskTypeOK
    <3>2. a \in Disk!Sectors(image.segs[header]) /\ header \in DOMAIN image.segs
          /\ Shift = image.segs[header].pa - image.segs[header].offset
      BY <3>1, <2>2, <2>3, <1>1, SectorOfSegment, RegionFacts DEF DiskInv
    <3>3. image.segs[i].pa - image.segs[i].offset = image.segs[header].pa - image.segs[header].offset
      BY <3>2, SegFacts DEF DiskInv
    <3> QED BY <3>2, <3>3, <2>2, <2>3, <1>1
  <2>4. CASE a \notin pa .. pa + SECTSIZE - 1
    BY <2>1, <2>2, <2>4, <1>1
  <2> QED BY <2>3, <2>4
<1>9. Disk!LoaderIntact'
  <2>1. ASSUME NEW a \in 0 .. A20 - 1, header > 0 \/ a \notin ELFHDR .. Disk!HdrEnd - 1
        PROVE  ram'[a] = ram[a]
    <3>1. a \in 0 .. MemCells - 1
      BY DiskFacts DEF DiskInv
    <3>2. CASE header > 0
      <4>1. a \notin pa .. pa + SECTSIZE - 1
        BY <3>1, <3>2, <1>1, <1>3, SectorOfSegment DEF DiskInv
      <4> QED BY <4>1, <3>1, <1>1
    <3>3. CASE header = 0
      <4>1. Disk!EndPa = Disk!HdrEnd /\ Disk!HdrEnd % SECTSIZE = 0 /\ First = ELFHDR /\ ELFHDR \in Nat
        BY <3>3, DiskFacts, RegionFacts DEF DiskInv
      <4>2. pa + SECTSIZE <= Disk!HdrEnd
        BY <4>1, <1>1, <1>3, MultiplesApart
      <4>3. a \notin pa .. pa + SECTSIZE - 1
        BY <4>1, <4>2, <2>1, <3>3, <1>1, <1>3
      <4> QED BY <4>3, <3>1, <1>1
    <3> QED BY <3>2, <3>3 DEF DiskInv, DiskTypeOK
  <2>2. \A a \in BootCells : a \in 0 .. A20 - 1 /\ a \notin ELFHDR .. Disk!HdrEnd - 1
    BY DiskFacts DEF DiskInv
  <2>3. \A a \in ELFHDR .. Disk!HdrEnd - 1 : a \in 0 .. A20 - 1
    BY DiskFacts DEF DiskInv
  <2> QED BY <2>1, <2>2, <2>3, <1>2 DEF DiskInv, Disk!LoaderIntact
<1>10. Disk!KernelAsLinked'
  BY <1>2 DEF Disk!KernelAsLinked
<1> QED BY <1>4, <1>5, <1>7, <1>8, <1>9, <1>10 DEF DiskInv

LEMMA AdvanceKeeps ==
  ASSUME Disk!BootLoaderAssumption, DiskInv, Disk!Advance
  PROVE  DiskInv'
<1>1. bootpc = "readseg" /\ pa >= Disk!EndPa /\ UNCHANGED <<image, ram, line, kbc, drive>>
  BY DEF Disk!Advance
<1>2. /\ pa \in Nat /\ header \in 0 .. Len(image.segs) /\ Len(image.segs) \in Nat
      /\ DOMAIN image.segs = 1 .. Len(image.segs) /\ SECTSIZE \in Nat \ {0}
      /\ ELFHDR \in Nat /\ Disk!HdrEnd \in Nat /\ ELFHDR < Disk!HdrEnd
  BY DiskFacts DEF DiskInv, DiskTypeOK
<1>3. line
  <2>1. header = 0 => pa > ELFHDR
    BY <1>1, <1>2, RegionFacts DEF DiskInv
  <2> QED BY <2>1, <1>1, <1>2 DEF DiskInv, LineOK, Reading
<1>4. \A i \in DOMAIN image.segs : i <= header =>
        \A a \in Disk!Cells(image.segs[i]) : ram[a] = a - (image.segs[i].pa - image.segs[i].offset)
  <2> TAKE i \in DOMAIN image.segs
  <2> HAVE i <= header
  <2>1. CASE i < header
    BY <2>1, <1>1 DEF DiskInv, SegsOK
  <2>2. CASE i = header
    <3>1. /\ Start \in Nat /\ First \in Nat /\ First <= Start /\ Disk!EndPa \in Nat
          /\ Disk!Cells(image.segs[i]) = Start .. Disk!EndPa - 1
          /\ Shift = image.segs[i].pa - image.segs[i].offset
      BY <2>2, <1>2, RegionFacts DEF DiskInv
    <3>2. \A a \in Disk!Cells(image.segs[i]) : a \in 0 .. MemCells - 1
      BY SegFacts DEF DiskInv
    <3>3. \A a \in Start .. Disk!EndPa - 1 : a >= First /\ a < pa
      BY <3>1, <1>1, <1>2
    <3> QED BY <3>1, <3>2, <3>3, <1>1 DEF DiskInv, ReadOK, Reading
  <2> QED BY <2>1, <2>2, <1>2
<1>5. \A a \in ELFHDR .. Disk!HdrEnd - 1 : ram[a] = a - ELFHDR
  <2>1. CASE header > 0
    BY <2>1 DEF DiskInv, Disk!LoaderIntact
  <2>2. CASE header = 0
    <3>1. First = ELFHDR /\ Shift = ELFHDR /\ Disk!EndPa = Disk!HdrEnd
      BY <2>2, RegionFacts DEF DiskInv
    <3>2. \A a \in ELFHDR .. Disk!HdrEnd - 1 : a \in 0 .. MemCells - 1 /\ a >= ELFHDR /\ a < pa
      BY <3>1, <1>1, <1>2, DiskFacts DEF DiskInv
    <3> QED BY <3>1, <3>2, <1>1 DEF DiskInv, ReadOK, Reading
  <2> QED BY <2>1, <2>2, <1>2
<1>6. Disk!LoaderIntact'
  BY <1>1, <1>5 DEF DiskInv, Disk!LoaderIntact
<1>7. CASE bootpc' = "bad" /\ UNCHANGED <<header, pa, offset>> /\ header = 0
  BY <1>1, <1>2, <1>3, <1>6, <1>7 DEF DiskInv, DiskTypeOK, LineOK, ReadOK, Reading, SegsOK,
    Disk!KernelAsLinked
<1>8. CASE header = Len(image.segs) /\ bootpc' = "entry" /\ UNCHANGED <<header, pa, offset>>
  <2>1. SegsOK'
    BY <1>1, <1>2, <1>4, <1>8 DEF SegsOK, Disk!Cells
  <2> QED BY <2>1, <1>1, <1>2, <1>3, <1>6, <1>8 DEF DiskInv, DiskTypeOK, LineOK, ReadOK, Reading,
                Disk!KernelAsLinked
<1>9. CASE /\ header # Len(image.segs) /\ header' = header + 1 /\ bootpc' = "readseg"
           /\ Disk!Readseg(image.segs[header + 1].pa, image.segs[header + 1].offset)
  <2> DEFINE seg == image.segs[header + 1]
  <2>1. header' \in DOMAIN image.segs /\ header' \in Nat /\ header' > 0 /\ header' = header + 1
    BY <1>2, <1>9
  <2>2. seg.pa \in Nat /\ seg.offset \in Nat /\ seg.pa % SECTSIZE = seg.offset % SECTSIZE
    BY <2>1, SegFacts DEF DiskInv
  <2>3. /\ pa' \in Nat /\ offset' \in Nat /\ offset' > 0 /\ pa' % SECTSIZE = 0
        /\ pa' = seg.pa - (seg.pa % SECTSIZE)
        /\ (offset' - 1) * SECTSIZE = pa' - (seg.pa - seg.offset)
    BY <2>2, <1>9, ReadBegins DEF DiskInv
  <2>4. DiskTypeOK'
    BY <2>1, <2>3, <1>1, <1>2, <1>9 DEF DiskInv, DiskTypeOK
  <2>5. Start' = seg.pa /\ Shift' = seg.pa - seg.offset /\ First' = pa'
    BY <2>1, <2>3, <1>1 DEF Start, Shift, First
  <2>6. ReadOK'
    <3>1. \A a \in 0 .. MemCells - 1 : ~ (a >= pa' /\ a < pa')
      BY <2>3
    <3> QED BY <3>1, <2>3, <2>5, <1>9 DEF ReadOK
  <2>7. LineOK'
    BY <1>1, <1>3, <1>9 DEF LineOK
  <2>8. SegsOK'
    <3>1. \A i \in DOMAIN image.segs : i < header' => i <= header
      BY <2>1, <1>2
    <3> QED BY <3>1, <1>1, <1>4, <1>9 DEF SegsOK, Disk!Cells
  <2> QED BY <2>4, <2>6, <2>7, <2>8, <1>6, <1>9 DEF DiskInv, Disk!KernelAsLinked
<1> QED BY <1>7, <1>8, <1>9 DEF Disk!Advance

LEMMA ClearBssKeeps ==
  ASSUME Disk!BootLoaderAssumption, DiskInv, Disk!ClearBss
  PROVE  DiskInv'
<1>1. /\ bootpc = "entry" /\ bootpc' = "kernel" /\ UNCHANGED <<image, line, kbc, drive, header, pa, offset>>
      /\ ram' = [a \in DOMAIN ram |-> IF a \in image.edata .. image.end - 1 THEN Disk!Zero ELSE ram[a]]
  BY DEF Disk!ClearBss
<1>2. /\ ram \in [0 .. MemCells - 1 -> Int] /\ header = Len(image.segs)
      /\ DOMAIN image.segs = 1 .. Len(image.segs) /\ Len(image.segs) \in Nat
      /\ A20 \in Nat /\ MemCells \in Nat /\ A20 < MemCells
      /\ image.edata \in Nat /\ image.edata >= A20 /\ image.end \in Nat
  BY <1>1, DiskFacts DEF DiskInv, DiskTypeOK
<1>3. \A a \in 0 .. MemCells - 1 : ram'[a] = IF a \in image.edata .. image.end - 1 THEN Disk!Zero ELSE ram[a]
  BY <1>1, <1>2
<1>4. DiskTypeOK'
  <2>1. ram' \in [0 .. MemCells - 1 -> Int]
    <3>1. \A a \in 0 .. MemCells - 1 : ram[a] \in Int /\ Disk!Zero \in Int
      BY <1>2 DEF Disk!Zero
    <3> QED BY <3>1, <1>1, <1>2
  <2> QED BY <2>1, <1>1 DEF DiskInv, DiskTypeOK
<1>5. LineOK' /\ ReadOK' /\ SegsOK'
  BY <1>1 DEF DiskInv, LineOK, ReadOK, SegsOK, Reading
<1>6. Disk!LoaderIntact'
  <2>1. \A a \in 0 .. A20 - 1 : ram'[a] = ram[a]
    BY <1>2, <1>3
  <2>2. \A a \in BootCells : a \in 0 .. A20 - 1
    BY DiskFacts DEF DiskInv
  <2>3. \A a \in ELFHDR .. Disk!HdrEnd - 1 : a \in 0 .. A20 - 1
    BY DiskFacts DEF DiskInv
  <2> QED BY <2>1, <2>2, <2>3, <1>1 DEF DiskInv, Disk!LoaderIntact
<1>7. Disk!KernelAsLinked'
  <2> SUFFICES ASSUME NEW i \in DOMAIN image.segs
               PROVE  LET seg == image.segs[i] IN
                      /\ \A k \in 0 .. seg.filesz - 1 : ram'[seg.pa + k] = seg.offset + k
                      /\ \A k \in seg.filesz .. seg.memsz - 1 : ram'[seg.pa + k] = Disk!Zero
    BY <1>1 DEF Disk!KernelAsLinked
  <2> DEFINE seg == image.segs[i]
  <2>1. /\ seg.pa \in Nat /\ seg.offset \in Nat /\ seg.filesz \in Nat /\ seg.memsz \in Nat
        /\ seg.filesz <= seg.memsz
        /\ \A a \in Disk!Cells(seg) : a \in image.edata .. image.end - 1 <=> a >= seg.pa + seg.filesz
        /\ \A a \in Disk!Cells(seg) : a \in 0 .. MemCells - 1
    BY SegFacts DEF DiskInv
  <2>2. i < header \/ (i = header /\ bootpc = "entry")
    BY <1>1, <1>2
  <2>3. \A a \in Disk!Cells(seg) : ram[a] = a - (seg.pa - seg.offset)
    <3>1. SegsOK /\ bootpc # "kernel"
      BY <1>1 DEF DiskInv
    <3> QED BY <3>1, <2>2 DEF SegsOK
  <2> HIDE DEF seg
  <2>4. ASSUME NEW k \in 0 .. seg.memsz - 1
        PROVE  ram'[seg.pa + k] = IF k < seg.filesz THEN seg.offset + k ELSE Disk!Zero
    <3> DEFINE a == seg.pa + k
    <3>1. a \in Disk!Cells(seg) /\ (a >= seg.pa + seg.filesz <=> ~ (k < seg.filesz))
          /\ a - (seg.pa - seg.offset) = seg.offset + k
      BY <2>1 DEF Disk!Cells
    <3> HIDE DEF a
    <3>2. ram'[a] = IF k < seg.filesz THEN seg.offset + k ELSE Disk!Zero
      BY <3>1, <2>1, <2>3, <1>3
    <3> QED BY <3>2 DEF a
  <2>5. \A k \in 0 .. seg.filesz - 1 : k \in 0 .. seg.memsz - 1 /\ k < seg.filesz
    BY <2>1
  <2>6. \A k \in seg.filesz .. seg.memsz - 1 : k \in 0 .. seg.memsz - 1 /\ ~ (k < seg.filesz)
    BY <2>1
  <2> QED BY <2>4, <2>5, <2>6 DEF seg
<1> QED BY <1>4, <1>5, <1>6, <1>7 DEF DiskInv

\* The steps of the 8042 and of the disk, and those that write neither memory nor pa.
LEMMA DevicesKeep ==
  ASSUME Disk!BootLoaderAssumption, DiskInv, Disk!KbcDone \/ Disk!DriveDone
  PROVE  DiskInv'
<1>1. UNCHANGED <<bootpc, image, ram, header, pa, offset>>
  BY DEF Disk!KbcDone, Disk!DriveDone
<1>2. /\ kbc \in [busy : BOOLEAN, byte : {"other", "d1", "df"}]
      /\ drive \in [busy : BOOLEAN, lba : Nat] /\ line \in BOOLEAN
  BY DEF DiskInv, DiskTypeOK
<1>3. /\ kbc' \in [busy : BOOLEAN, byte : {"other", "d1", "df"}]
      /\ drive' \in [busy : BOOLEAN, lba : Nat] /\ line' \in BOOLEAN
      /\ drive'.lba = drive.lba
      /\ line => line'
      /\ \/ kbc.busy /\ (kbc.byte = "df" => line') /\ drive' = drive
         \/ ~ kbc.busy /\ kbc' = kbc /\ line' = line
  <2>1. CASE Disk!KbcDone
    BY <2>1, <1>2 DEF Disk!KbcDone
  <2>2. CASE Disk!DriveDone
    BY <2>2, <1>2 DEF Disk!DriveDone
  <2> QED BY <2>1, <2>2
<1>4. DiskTypeOK'
  BY <1>1, <1>3 DEF DiskInv, DiskTypeOK
<1>5. LineOK'
  BY <1>1, <1>3 DEF DiskInv, LineOK, Reading
<1>6. Start' = Start /\ Shift' = Shift /\ First' = First /\ Disk!EndPa' = Disk!EndPa
  BY <1>1 DEF Start, Shift, First, Disk!EndPa
<1>7. ReadOK'
  BY <1>1, <1>3, <1>6 DEF DiskInv, ReadOK, Reading
<1>8. SegsOK' /\ Disk!LoaderIntact' /\ Disk!KernelAsLinked'
  BY <1>1 DEF DiskInv, SegsOK, Disk!LoaderIntact, Disk!KernelAsLinked, Disk!Cells
<1> QED BY <1>4, <1>5, <1>7, <1>8 DEF DiskInv

LEMMA StartKeeps ==
  ASSUME Disk!BootLoaderAssumption, DiskInv, Disk!Start1 \/ Disk!Start2 \/ Disk!Command
  PROVE  DiskInv'
<1>1. UNCHANGED <<image, ram, line, header, pa, offset>>
  BY DEF Disk!Start1, Disk!Start2, Disk!Command
<1>2. /\ kbc \in [busy : BOOLEAN, byte : {"other", "d1", "df"}]
      /\ drive \in [busy : BOOLEAN, lba : Nat] /\ offset \in Nat
  BY DEF DiskInv, DiskTypeOK
<1>3. /\ kbc' \in [busy : BOOLEAN, byte : {"other", "d1", "df"}]
      /\ drive' \in [busy : BOOLEAN, lba : Nat]
      /\ \/ bootpc' = "seta20.2"
         \/ bootpc' = "bootmain" /\ kbc'.busy /\ kbc'.byte = "df"
         \/ /\ bootpc = "readseg" /\ bootpc' = "waitdisk" /\ pa < Disk!EndPa
            /\ drive'.busy /\ drive'.lba = offset /\ kbc' = kbc
  <2>1. CASE Disk!Start1
    BY <2>1, <1>2 DEF Disk!Start1, Disk!OutKbc
  <2>2. CASE Disk!Start2
    BY <2>2, <1>2 DEF Disk!Start2, Disk!OutKbc
  <2>3. CASE Disk!Command
    BY <2>3, <1>2 DEF Disk!Command
  <2> QED BY <2>1, <2>2, <2>3
<1>4. DiskTypeOK'
  BY <1>1, <1>3 DEF DiskInv, DiskTypeOK
<1>5. LineOK'
  BY <1>1, <1>3 DEF DiskInv, LineOK, Reading
<1>6. Start' = Start /\ Shift' = Shift /\ First' = First /\ Disk!EndPa' = Disk!EndPa
  BY <1>1 DEF Start, Shift, First, Disk!EndPa
<1>7. ReadOK'
  BY <1>1, <1>3, <1>6 DEF DiskInv, ReadOK, Reading
<1>8. SegsOK' /\ Disk!LoaderIntact' /\ Disk!KernelAsLinked'
  <2>1. bootpc # "kernel" /\ bootpc' \notin {"kernel", "entry"}
    BY <1>3 DEF Disk!Start1, Disk!Start2, Disk!Command
  <2> QED BY <2>1, <1>1 DEF DiskInv, SegsOK, Disk!LoaderIntact, Disk!KernelAsLinked, Disk!Cells
<1> QED BY <1>4, <1>5, <1>7, <1>8 DEF DiskInv

LEMMA BootmainKeeps ==
  ASSUME Disk!BootLoaderAssumption, DiskInv, Disk!Bootmain
  PROVE  DiskInv'
<1>1. /\ bootpc = "bootmain" /\ header' = 0 /\ Disk!Readseg(ELFHDR, 0) /\ bootpc' = "readseg"
      /\ UNCHANGED <<image, ram, line, kbc, drive>>
  BY DEF Disk!Bootmain
<1>2. /\ SECTSIZE \in Nat \ {0} /\ ELFHDR \in Nat /\ ELFHDR % SECTSIZE = 0
      /\ DOMAIN image.segs = 1 .. Len(image.segs) /\ Len(image.segs) \in Nat
  BY DiskFacts DEF DiskInv
<1>3. 0 % SECTSIZE = 0
  BY <1>2, Small
<1>4. /\ pa' \in Nat /\ offset' \in Nat /\ offset' > 0 /\ pa' % SECTSIZE = 0
      /\ pa' = ELFHDR /\ (offset' - 1) * SECTSIZE = pa' - ELFHDR
  <2>1. /\ pa' \in Nat /\ offset' \in Nat /\ offset' > 0 /\ pa' % SECTSIZE = 0
        /\ pa' = ELFHDR - (ELFHDR % SECTSIZE)
        /\ (offset' - 1) * SECTSIZE = pa' - (ELFHDR - 0)
    BY <1>1, <1>2, <1>3, ReadBegins DEF DiskInv
  <2> QED BY <2>1, <1>2
<1>5. DiskTypeOK'
  BY <1>1, <1>2, <1>4 DEF DiskInv, DiskTypeOK
<1>6. LineOK'
  BY <1>1, <1>2, <1>4 DEF DiskInv, LineOK
<1>7. Start' = ELFHDR /\ Shift' = ELFHDR /\ First' = ELFHDR
  BY <1>1, <1>2 DEF Start, Shift, First
<1>8. ReadOK'
  <2>1. \A a \in 0 .. MemCells - 1 : ~ (a >= ELFHDR /\ a < pa')
    BY <1>2, <1>4
  <2>2. pa' >= First'
    <3>1. pa' \in Nat /\ pa' = First'
      BY <1>4, <1>7
    <3> QED BY <3>1
  <2>4. (offset' - 1) * SECTSIZE = pa' - Shift'
    BY <1>4, <1>7
  <2>3. bootpc' # "waitdisk"
    BY <1>1
  <2> QED BY <2>1, <2>2, <2>3, <2>4, <1>1, <1>4, <1>7 DEF ReadOK
<1>9. SegsOK'
  <2>1. \A i \in DOMAIN image.segs : ~ (i < 0)
    BY <1>2
  <2> QED BY <2>1, <1>1 DEF SegsOK
<1>10. Disk!LoaderIntact' /\ Disk!KernelAsLinked'
  BY <1>1 DEF DiskInv, Disk!LoaderIntact, Disk!KernelAsLinked
<1> QED BY <1>5, <1>6, <1>8, <1>9, <1>10 DEF DiskInv

LEMMA DiskInit ==
  ASSUME Disk!BootLoaderAssumption, Disk!Init
  PROVE  DiskInv
<1>1. image \in Images
  BY DEF Disk!Init
<1>2. image.segs \in Seq([pa : Nat, offset : Nat, filesz : Nat, memsz : Nat])
  BY <1>1 DEF Disk!BootLoaderAssumption
<1>3. Len(image.segs) \in Nat /\ DOMAIN image.segs = 1 .. Len(image.segs)
  BY <1>2
<1>4. DiskTypeOK
  <2>1. ram \in [0 .. MemCells - 1 -> Int]
    BY DEF Disk!Init, Disk!Loader, Disk!Junk
  <2>2. kbc \in [busy : BOOLEAN, byte : {"other", "d1", "df"}]
    BY DEF Disk!Init
  <2>3. drive \in [busy : BOOLEAN, lba : Nat] /\ line \in BOOLEAN
    BY DEF Disk!Init
  <2>4. header \in 0 .. Len(image.segs) /\ pa \in Nat /\ offset \in Nat /\ bootpc = "seta20.1"
    BY <1>3 DEF Disk!Init
  <2> QED BY <2>1, <2>2, <2>3, <2>4, <1>1 DEF DiskTypeOK
<1>5. Disk!LoaderIntact
  <2>1. BootCells \subseteq 0 .. MemCells - 1
    BY DEF Disk!BootLoaderAssumption
  <2> QED BY <2>1 DEF Disk!Init, Disk!LoaderIntact
<1>6. SegsOK
  <2>1. \A i \in DOMAIN image.segs : ~ (i < 0)
    BY <1>3
  <2> QED BY <2>1 DEF Disk!Init, SegsOK
<1> QED BY <1>4, <1>5, <1>6 DEF Disk!Init, DiskInv, LineOK, ReadOK, Reading,
                Disk!KernelAsLinked

LEMMA DiskNext ==
  ASSUME Disk!BootLoaderAssumption, DiskInv, [Disk!Next]_(Disk!vars)
  PROVE  DiskInv'
<1>1. CASE UNCHANGED Disk!vars
  <2>1. UNCHANGED <<bootpc, image, ram, line, kbc, drive, header, pa, offset>>
    BY <1>1 DEF Disk!vars
  <2> QED BY <2>1 DEF DiskInv, DiskTypeOK, LineOK, ReadOK, SegsOK, Disk!LoaderIntact, Disk!KernelAsLinked,
                      Reading, Start, Shift, First, Disk!EndPa, Disk!Cells
<1>2. CASE Disk!Next
  BY <1>2, DevicesKeep, StartKeeps, BootmainKeeps, InslKeeps, AdvanceKeeps, ClearBssKeeps DEF Disk!Next
<1> QED BY <1>1, <1>2

\* The boot loader overwrites neither itself nor the header it reads, and starts the
\* kernel as it was linked, for sectors, memory and kernels of any size.
THEOREM KernelIsLoaded ==
  ASSUME Disk!BootLoaderAssumption
  PROVE  Disk!Spec => [](Disk!LoaderIntact /\ Disk!KernelAsLinked)
<1>1. Disk!Init => DiskInv
  BY DiskInit
<1>2. DiskInv /\ [Disk!Next]_(Disk!vars) => DiskInv'
  BY DiskNext
<1>3. DiskInv => Disk!LoaderIntact /\ Disk!KernelAsLinked
  BY DEF DiskInv
<1> QED BY <1>1, <1>2, <1>3, PTL DEF Disk!Spec

-----------------------------------------------------------------------------
(* Together: LoaderParts *)

LEMMA OneLoader ==
  [LoaderNext]_loaderVars =>
    /\ loaderPart = "BootLoader" => loaderPart' = "BootLoader" /\ [Disk!Next]_(Disk!vars)
    /\ loaderPart = "LoadIcode" => loaderPart' = "LoadIcode" /\ [Icode!Next]_(Icode!vars)
BY DEF LoaderNext, loaderVars, diskVars, icodeVars, Disk!vars, Icode!vars

\* Both loaders: what is entered, the kernel or a program, is in memory as its
\* image says, the parts that the image leaves out zeroed, and a sound program is
\* refused only when pages run out.
THEOREM LoadersAreFaithful == LoaderSpec => []ImagesAsLinked
<1> USE LoaderPartsAssumption
<1> DEFINE OfDisk == loaderPart = "BootLoader"
           OfIcode == loaderPart = "LoadIcode"
<1>1. LoaderSpec /\ OfDisk => [](OfDisk /\ Disk!ImagesAsLinked)
  <2>1. LoaderInit /\ OfDisk => Disk!Init
    BY DEF LoaderInit
  <2>2. OfDisk /\ [LoaderNext]_loaderVars => OfDisk' /\ [Disk!Next]_(Disk!vars)
    BY OneLoader
  <2>3. Disk!LoaderIntact /\ Disk!KernelAsLinked => Disk!ImagesAsLinked
    BY DEF Disk!ImagesAsLinked
  <2>4. Disk!Spec => []Disk!ImagesAsLinked
    BY <2>3, KernelIsLoaded, PTL
  <2> QED BY <2>1, <2>2, <2>4, PTL DEF LoaderSpec, Disk!Spec
<1>2. LoaderSpec /\ OfIcode => [](OfIcode /\ Icode!ImagesAsLinked)
  <2>1. LoaderInit /\ OfIcode => Icode!Init
    BY DEF LoaderInit
  <2>2. OfIcode /\ [LoaderNext]_loaderVars => OfIcode' /\ [Icode!Next]_(Icode!vars)
    BY OneLoader
  <2>3. Icode!ProgramAsLinked /\ Icode!PanicsOnlyForMemory => Icode!ImagesAsLinked
    BY DEF Icode!ImagesAsLinked
  <2>4. Icode!Spec => []Icode!ImagesAsLinked
    BY <2>3, ProgramsAreLoaded, PTL
  <2> QED BY <2>1, <2>2, <2>4, PTL DEF LoaderSpec, Icode!Spec
<1>3. /\ OfDisk /\ Disk!ImagesAsLinked => ImagesAsLinked
      /\ OfIcode /\ Icode!ImagesAsLinked => ImagesAsLinked
  BY DEF ImagesAsLinked
<1>4. LoaderInit => OfDisk \/ OfIcode
  BY DEF LoaderInit
<1> QED BY <1>1, <1>2, <1>3, <1>4, PTL DEF LoaderSpec
================================================================================
