------------------------------- MODULE PageMap -------------------------------
(***************************************************************************)
(* Physical pages and address spaces in JOS, lab 4: the page free list and *)
(* the reference counts of kern/pmap.c, the page directories and page      *)
(* tables of the environments below UTOP, and every operation that changes *)
(* them: sys_page_alloc, sys_page_map, sys_page_unmap, the page transfer   *)
(* of sys_ipc_try_send, sys_exofork and env_free.  Each runs under the     *)
(* kernel lock, so each is one action.                                     *)
(*                                                                         *)
(* A slot is a place in memory that points to a page: env_pgdir of an      *)
(* environment <<e>>, an entry of its page directory <<e, d>>, or an entry *)
(* of the page table that this entry points to <<e, d, t>>.                *)
(***************************************************************************)
EXTENDS Integers, FiniteSets

CONSTANTS
  Page,     \* physical pages: page 0 and those that page_init makes free
  Zero,     \* pages[0]
  NoPage,   \* a slot without PTE_P (or a null env_pgdir)
  Env,      \* slots of envs[]
  First,    \* the environment that i386_init creates
  NoEnv,    \* env_parent_id of an environment whose parent is gone
  PDX,      \* indices of a page directory below UTOP
  PTX,      \* indices of a page table
  RefMod,   \* pp_ref counts modulo this, 2^16
  Misuse    \* legal calls that no program of user/ and lib/ makes

DirSlot == {<<e>> : e \in Env}
TableSlot == Env \X PDX
EntrySlot == Env \X PDX \X PTX
Slot == DirSlot \cup TableSlot \cup EntrySlot

\* Unmapping, or mapping from, an address without a page whose page table
\* exists; allocating for an envid that does not exist or is not the caller's.
MisuseNames == {"unmap_unmapped", "map_unmapped", "alloc_bad_env"}

ASSUME PageAssumption ==
  /\ Zero \in Page /\ NoPage \notin Page
  /\ First \in Env /\ NoEnv \notin Env
  /\ PDX # {} /\ PTX # {}
  /\ RefMod \in Nat \ {0, 1}
  /\ Misuse \subseteq MisuseNames
  /\ IsFiniteSet(Slot)

VARIABLES
  at,      \* the page each slot points to, NoPage if it is not present
  ref,     \* pp_ref of each page
  free,    \* the pages on page_free_list
  parent   \* env_parent_id, as a slot of envs[]

vars == <<at, ref, free, parent>>

\* The memory as one value, for the C functions that change it in turn.
Memory == [at |-> at, ref |-> ref, free |-> free]
Becomes(m) == at' = m.at /\ ref' = m.ref /\ free' = m.free

Live(e) == at[<<e>>] # NoPage

\* Slots of environment e.
SlotsOf(e) == {s \in Slot : s[1] = e}

\* page_init; then env_create has given First a page directory, a page table
\* and one page.
Init ==
  \E dir, table, page \in Page \ {Zero}, d \in PDX, t \in PTX :
    LET used == {dir, table, page} IN
    /\ dir # table /\ table # page /\ page # dir
    /\ at = [s \in Slot |-> CASE s = <<First>> -> dir
                              [] s = <<First, d>> -> table
                              [] s = <<First, d, t>> -> page
                              [] OTHER -> NoPage]
    /\ ref = [p \in Page |-> IF p \in used \cup {Zero} THEN 1 ELSE 0]
    /\ free = Page \ (used \cup {Zero})
    /\ parent = [e \in Env |-> NoEnv]

-----------------------------------------------------------------------------
(* kern/pmap.c *)

\* page_alloc takes p off the free list; its count stays 0.
PageAlloc(m, p) == [m EXCEPT !.free = @ \ {p}]

\* page_decref, and page_free when the count reaches 0.
PageDecref(m, p) ==
  LET r == (m.ref[p] - 1) % RefMod IN
  [m EXCEPT !.ref[p] = r, !.free = IF r = 0 THEN @ \cup {p} ELSE @]

PageIncref(m, p) == [m EXCEPT !.ref[p] = (@ + 1) % RefMod]

\* Mutant of PgdirWalk: the new page table is not counted.
Mut_PgdirWalkNoRef(m, s) ==
  LET dir == <<s[1], s[2]>> IN
  IF m.at[dir] # NoPage THEN {m}
  ELSE {[PageAlloc(m, q) EXCEPT !.at[dir] = q] : q \in m.free}

\* pgdir_walk with create, for entry s: the memories it may leave, one per page
\* that page_alloc may hand out for a new page table.  None if it returns NULL.
PgdirWalk(m, s) ==
  LET dir == <<s[1], s[2]>> IN
  IF m.at[dir] # NoPage THEN {m}
  ELSE {PageIncref([PageAlloc(m, q) EXCEPT !.at[dir] = q], q) : q \in m.free}

\* page_lookup when the page table exists: pa2page(PTE_ADDR(*pte)), which is
\* pages[0] for an empty entry.
PageLookup(m, s) == IF m.at[s] = NoPage THEN Zero ELSE m.at[s]

\* page_remove.
PageRemove(m, s) ==
  IF m.at[<<s[1], s[2]>>] = NoPage THEN m
  ELSE [PageDecref(m, PageLookup(m, s)) EXCEPT !.at[s] = NoPage]

\* Mutant of SetEntry: the old page goes before the new one is counted, the
\* version of page_insert that the comment above it warns about.
Mut_SetEntryDecrefFirst(m, p, s) ==
  LET m1 == IF m.at[s] # NoPage THEN PageRemove(m, s) ELSE m
  IN  [PageIncref(m1, p) EXCEPT !.at[s] = p]

\* page_insert once it has the page table: count the new page, remove the old.
SetEntry(m, p, s) ==
  LET m1 == PageIncref(m, p)
      m2 == IF m1.at[s] # NoPage THEN PageRemove(m1, s) ELSE m1
  IN  [m2 EXCEPT !.at[s] = p]

\* page_insert: the memories it may leave, none if it returns -E_NO_MEM.
PageInsert(m, p, s) == {SetEntry(w, p, s) : w \in PgdirWalk(m, s)}

-----------------------------------------------------------------------------
(* System calls; a is the caller, t the environment that is changed. *)

\* envid2env finds t; with checkperm only the caller itself or a child of it.
EnvId2Env(a, t, checkperm) ==
  Live(a) /\ Live(t) /\ (checkperm => t = a \/ parent[t] = a)

MayChange(a, t) == EnvId2Env(a, t, TRUE)

\* Mutant of SysPageAlloc: the page is dropped when page_insert fails.
Mut_SysPageAllocNoFree(a, t, s) ==
  /\ MayChange(a, t)
  /\ s[1] = t
  /\ \E p \in free :
       LET m == PageAlloc(Memory, p) IN
       IF PageInsert(m, p, s) # {} THEN \E n \in PageInsert(m, p, s) : Becomes(n)
                                   ELSE Becomes(m)
  /\ UNCHANGED parent

\* sys_page_alloc takes a page, then checks the envid (and returns if it is
\* refused), then inserts the page or, if that fails, frees it again.
SysPageAlloc(a, t, s) ==
  /\ Live(a)
  /\ MayChange(a, t) \/ "alloc_bad_env" \in Misuse
  /\ s[1] = t
  /\ \E p \in free :
       LET m == PageAlloc(Memory, p)
           inserted == PageInsert(m, p, s)
       IN CASE ~ MayChange(a, t) -> Becomes(m)
            [] MayChange(a, t) /\ inserted # {} -> \E n \in inserted : Becomes(n)
            [] OTHER -> Becomes([m EXCEPT !.free = @ \cup {p}])
  /\ UNCHANGED parent

\* The end of sys_page_map: look up the page of entry src, insert it at dst.
MapPage(src, dst) ==
  /\ at[<<src[1], src[2]>>] # NoPage
  /\ at[src] = NoPage => "map_unmapped" \in Misuse
  /\ \E n \in PageInsert(Memory, PageLookup(Memory, src), dst) : Becomes(n)
  /\ UNCHANGED parent

\* sys_page_map; the bit 0x200 of perm turns checkperm off.
SysPageMap(a, src, dst, checkperm) ==
  /\ EnvId2Env(a, src[1], checkperm) /\ EnvId2Env(a, dst[1], checkperm)
  /\ MapPage(src, dst)

\* sys_ipc_try_send with a page calls sys_page_map with that bit: the receiver,
\* which chose dst, need not be a child of the caller.
SysIpcTrySend(a, src, dst) ==
  /\ src[1] = a /\ dst[1] # a
  /\ SysPageMap(a, src, dst, FALSE)

\* sys_page_unmap
SysPageUnmap(a, t, s) ==
  /\ MayChange(a, t)
  /\ s[1] = t
  /\ at[<<s[1], s[2]>>] # NoPage /\ at[s] = NoPage => "unmap_unmapped" \in Misuse
  /\ Becomes(PageRemove(Memory, s))
  /\ UNCHANGED parent

\* sys_exofork: env_setup_vm takes a page for the page directory.
SysExofork(a, e) ==
  /\ Live(a) /\ ~ Live(e)
  /\ \E p \in free :
       Becomes(PageIncref([PageAlloc(Memory, p) EXCEPT !.at[<<e>>] = p], p))
  /\ parent' = [parent EXCEPT ![e] = a]

\* Mutants of EnvFree: the page tables are freed but not scanned; the scan does
\* not test PTE_P.
Mut_EnvFreeNoScan(e) ==
  LET own == SlotsOf(e) \ EntrySlot
      uses(p) == Cardinality({s \in own : at[s] = p}) IN
  /\ Live(e)
  /\ at' = [s \in Slot |-> IF s \in own THEN NoPage ELSE at[s]]
  /\ ref' = [p \in Page |-> (ref[p] - uses(p)) % RefMod]
  /\ free' = free \cup {p \in Page : ref[p] \in 1..uses(p)}
  /\ parent' = [f \in Env |-> IF f = e \/ parent[f] = e THEN NoEnv ELSE parent[f]]

Mut_EnvFreeBlind(e) ==
  LET uses(p) == Cardinality({s \in SlotsOf(e) : at[s] = p \/
                   (/\ s \in EntrySlot /\ at[<<s[1], s[2]>>] # NoPage
                    /\ at[s] = NoPage /\ p = Zero)}) IN
  /\ Live(e)
  /\ at' = [s \in Slot |-> IF s \in SlotsOf(e) THEN NoPage ELSE at[s]]
  /\ ref' = [p \in Page |-> (ref[p] - uses(p)) % RefMod]
  /\ free' = free \cup {p \in Page : ref[p] \in 1..uses(p)}
  /\ parent' = [f \in Env |-> IF f = e \/ parent[f] = e THEN NoEnv ELSE parent[f]]

\* env_free: every page of e, its page tables and its page directory lose one
\* reference per slot of e, and are freed on the way through 0.  The id of e is
\* not used again, so its children lose their parent.
EnvFree(e) ==
  LET uses(p) == Cardinality({s \in SlotsOf(e) : at[s] = p}) IN
  /\ Live(e)
  /\ at' = [s \in Slot |-> IF s \in SlotsOf(e) THEN NoPage ELSE at[s]]
  /\ ref' = [p \in Page |-> (ref[p] - uses(p)) % RefMod]
  /\ free' = free \cup {p \in Page : ref[p] \in 1..uses(p)}
  /\ parent' = [f \in Env |-> IF f = e \/ parent[f] = e THEN NoEnv ELSE parent[f]]

Next ==
  \/ \E a, t \in Env, s \in EntrySlot : SysPageAlloc(a, t, s) \/ SysPageUnmap(a, t, s)
  \/ \E a \in Env, src, dst \in EntrySlot : SysIpcTrySend(a, src, dst)
  \/ \E a \in Env, src, dst \in EntrySlot, checkperm \in BOOLEAN :
       SysPageMap(a, src, dst, checkperm)
  \/ \E a, e \in Env : SysExofork(a, e)
  \/ \E e \in Env : EnvFree(e)

Spec == Init /\ [][Next]_vars

-----------------------------------------------------------------------------
(* Properties *)

\* The fields keep their types, and the slots of an environment form a tree:
\* no page table without a page directory, no entry without a page table.
TypeOK ==
  /\ at \in [Slot -> Page \cup {NoPage}]
  /\ ref \in [Page -> 0..(RefMod - 1)]
  /\ free \subseteq Page
  /\ parent \in [Env -> Env \cup {NoEnv}]
  /\ \A s \in TableSlot : at[s] # NoPage => at[<<s[1]>>] # NoPage
  /\ \A s \in EntrySlot : at[s] # NoPage => at[<<s[1], s[2]>>] # NoPage

\* The places that point to p, the kernel's own claim on page 0 apart.
Pointers(p) == {s \in Slot : at[s] = p}

\* pp_ref counts the pointers to a page through every insert, remap, transfer,
\* failed call and exit; pages[0] has the one reference that page_init gave it.
RefCounts ==
  \A p \in Page :
    ref[p] = Cardinality(Pointers(p)) + (IF p = Zero THEN 1 ELSE 0)

\* The free list is exactly the pages that nothing points to: no page is lost,
\* and none can be handed out while it is mapped somewhere.
FreePagesExact == free = {p \in Page \ {Zero} : Pointers(p) = {}}

\* A page directory or page table is reached from one slot only: no program
\* has it mapped below UTOP, where it could write it.
TablesAreOwn ==
  \A s \in DirSlot \cup TableSlot, r \in Slot :
    at[s] # NoPage /\ at[r] = at[s] => r = s

\* Page 0 stays in use, as page_init marked it, and no program gets it.
ZeroInUse == Zero \notin free /\ Pointers(Zero) = {}
==============================================================================
