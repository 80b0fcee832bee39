---------------------------------- MODULE Tlb ----------------------------------
(***************************************************************************)
(* Page directories and TLBs of several CPUs (kern/env.c, kern/pmap.c,     *)
(* kern/sched.c): which directory a CPU has loaded, and which translations *)
(* it still holds when page tables change.  The kernel runs under one      *)
(* lock, so a visit to it is one step; user code fills the TLB in between. *)
(***************************************************************************)
EXTENDS Integers, FiniteSets

CONSTANTS
  Cpus, Envs,
  Pages,        \* user pages
  Frames,       \* physical pages, for directories and user pages
  EditRunning,  \* system calls change address spaces that run on other CPUs
  KillTwice     \* environments are destroyed that are dying already

VARIABLES
  status,   \* of each environment
  parent,   \* env -> env_parent_id, None when that environment is gone
  dir,      \* env -> frame of its page directory
  pt,       \* env -> page -> frame
  cur,      \* CPU -> curenv
  cr3,      \* CPU -> loaded directory
  tlb       \* CPU -> page -> frame of the translation that it holds

vars == <<status, parent, dir, pt, cur, cr3, tlb>>

None == "none"
KernPgdir == 0     \* also a directory that is freed
Unmapped == 0

TlbAssumption == Frames \subseteq Nat \ {0} /\ None \notin Envs

-----------------------------------------------------------------------------

Live(st) == {e \in Envs : st[e] # "FREE"}
FreeFrames == Frames \ ({dir[e] : e \in Live(status)} \cup {pt[e][v] : e \in Envs, v \in Pages})
NoPages == [v \in Pages |-> Unmapped]
UserCpus == {c \in Cpus : cur[c] # None}
RunsElsewhere(c, e) == \E d \in Cpus \ {c} : cur[d] = e

\* Mutant of Lcr3: the TLB is kept.
Mut_Lcr3(c, pgdir) == cr3' = [cr3 EXCEPT ![c] = pgdir] /\ UNCHANGED tlb

\* Loading a directory flushes the TLB.
Lcr3(c, pgdir) == cr3' = [cr3 EXCEPT ![c] = pgdir] /\ tlb' = [tlb EXCEPT ![c] = NoPages]

\* env_run: the environment that ran becomes runnable.
EnvRun(c, e, st) ==
  /\ status' = [x \in Envs |-> IF x = e THEN "RUNNING"
                               ELSE IF x = cur[c] /\ st[x] = "RUNNING" THEN "RUNNABLE" ELSE st[x]]
  /\ cur' = [cur EXCEPT ![c] = e]
  /\ Lcr3(c, dir'[e])

SchedHalt(c, st) == status' = st /\ cur' = [cur EXCEPT ![c] = None] /\ Lcr3(c, KernPgdir)

\* sched_yield with statuses st, in any order of the search; own is the
\* environment to go on with when there is no other.
SchedYield(c, st, own) ==
  \/ \E e \in Envs : st[e] = "RUNNABLE" /\ EnvRun(c, e, st)
  \/ /\ \A e \in Envs : st[e] # "RUNNABLE"
     /\ IF own # None THEN st[own] = "RUNNING" /\ EnvRun(c, own, st) ELSE SchedHalt(c, st)

\* The way back: trap() runs curenv while it is RUNNING.
Return(c, st) ==
  IF st[cur[c]] = "RUNNING" THEN EnvRun(c, cur[c], st) ELSE SchedYield(c, st, None)

\* env_free's effect on the address spaces, and on what its id stands for.
Freed(e) ==
  /\ parent' = [x \in Envs |-> IF x = e \/ parent[x] = e THEN None ELSE parent[x]]
  /\ dir' = [dir EXCEPT ![e] = KernPgdir] /\ pt' = [pt EXCEPT ![e] = NoPages]

\* envid2env with checkperm: itself or a child.
MayChange(c, e) == status[e] # "FREE" /\ (e = cur[c] \/ parent[e] = cur[c])

-----------------------------------------------------------------------------

\* User code touches a page.
Touch(c, v) ==
  /\ cur[c] # None
  /\ \E e \in Envs : status[e] # "FREE" /\ dir[e] = cr3[c] /\ pt[e][v] # Unmapped
                     /\ tlb' = [tlb EXCEPT ![c][v] = pt[e][v]]
  /\ UNCHANGED <<status, parent, dir, pt, cur, cr3>>

\* trap() frees an environment that is dying.
TrapDying(c) ==
  /\ cur[c] # None /\ status[cur[c]] = "DYING"
  /\ Freed(cur[c]) /\ SchedYield(c, [status EXCEPT ![cur[c]] = "FREE"], None)

Enters(c) == cur[c] # None /\ status[cur[c]] = "RUNNING"

\* A change to e's page v: pages are inserted, replaced or removed; only this
\* CPU's entry is invalidated, and the way back flushes them all.
SetPage(c, e, v, f) ==
  /\ Enters(c) /\ MayChange(c, e) /\ (EditRunning \/ ~RunsElsewhere(c, e))
  /\ pt' = [pt EXCEPT ![e][v] = f] /\ UNCHANGED <<dir, parent>>
  /\ Return(c, status)

PageAlloc(c, e, v) == \E f \in FreeFrames : SetPage(c, e, v, f)
PageUnmap(c, e, v) == pt[e][v] # Unmapped /\ SetPage(c, e, v, Unmapped)

\* sys_exofork: a slot and a directory.
Exofork(c, e) ==
  /\ Enters(c) /\ status[e] = "FREE"
  /\ \E f \in FreeFrames : dir' = [dir EXCEPT ![e] = f]
  /\ parent' = [parent EXCEPT ![e] = cur[c]]
  /\ UNCHANGED pt
  /\ Return(c, [status EXCEPT ![e] = "NOT_RUNNABLE"])

\* sys_env_set_status of a new child, which never runs yet.
Wake(c, e) ==
  /\ Enters(c) /\ MayChange(c, e) /\ status[e] = "NOT_RUNNABLE" /\ ~RunsElsewhere(c, e)
  /\ UNCHANGED <<dir, pt, parent>>
  /\ Return(c, [status EXCEPT ![e] = "RUNNABLE"])

\* env_destroy: an environment that runs elsewhere only becomes a zombie.
Destroy(c, e) ==
  /\ Enters(c) /\ MayChange(c, e) /\ (KillTwice \/ status[e] # "DYING")
  /\ CASE e # cur[c] /\ status[e] = "RUNNING" ->
            UNCHANGED <<dir, pt, parent>> /\ Return(c, [status EXCEPT ![e] = "DYING"])
       [] e # cur[c] /\ status[e] # "RUNNING" ->
            Freed(e) /\ Return(c, [status EXCEPT ![e] = "FREE"])
       [] e = cur[c] -> Freed(e) /\ SchedYield(c, [status EXCEPT ![e] = "FREE"], None)

\* sys_yield or the timer, also on a CPU that is halted.
Yield(c) ==
  /\ Enters(c) \/ cur[c] = None
  /\ UNCHANGED <<dir, pt, parent>>
  /\ SchedYield(c, status, cur[c])

Init ==
  /\ \E e \in Envs :
       /\ status = [x \in Envs |-> IF x = e THEN "RUNNABLE" ELSE "FREE"]
       /\ \E f \in Frames : dir = [x \in Envs |-> IF x = e THEN f ELSE KernPgdir]
  /\ pt = [e \in Envs |-> NoPages] /\ parent = [e \in Envs |-> None]
  /\ cur = [c \in Cpus |-> None] /\ cr3 = [c \in Cpus |-> KernPgdir]
  /\ tlb = [c \in Cpus |-> NoPages]

Next ==
  \E c \in Cpus :
    \/ \E v \in Pages : Touch(c, v)
    \/ TrapDying(c)
    \/ \E e \in Envs, v \in Pages : PageAlloc(c, e, v)
    \/ \E e \in Envs, v \in Pages : PageUnmap(c, e, v)
    \/ \E e \in Envs : Exofork(c, e)
    \/ \E e \in Envs : Wake(c, e)
    \/ \E e \in Envs : Destroy(c, e)
    \/ Yield(c)

Spec == Init /\ [][Next]_vars

-----------------------------------------------------------------------------
(* Properties *)

\* No CPU, running, in between or halted, has a directory loaded whose page
\* was freed: the next user of that page would be read as page tables.
LoadedPgdirIsLive ==
  \A c \in Cpus : cr3[c] # KernPgdir => \E e \in Live(status) : dir[e] = cr3[c]

\* A CPU that runs an environment translates by its page tables as they are: a
\* page that was removed is not reached any more ("The TLB must be invalidated
\* if you remove an entry from the page table", kern/pmap.c:579).
NoStaleTranslation ==
  \A c \in UserCpus : \A v \in Pages : tlb[c][v] # Unmapped => tlb[c][v] = pt[cur[c]][v]

\* Nothing that one CPU does to an address space harms another one.
CpusAreApart == LoadedPgdirIsLive /\ NoStaleTranslation
==============================================================================
