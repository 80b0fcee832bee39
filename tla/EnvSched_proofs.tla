--------------------------- MODULE EnvSched_proofs ---------------------------
(***************************************************************************)
(* Proofs about EnvSched for every number of CPUs and of slots, as long as *)
(* programs keep to the careful use of sys_env_set_status and              *)
(* sys_env_destroy (Misuse = {}); with Misuse the theorems are false, as   *)
(* the runs env_two_cpus and env_two_kills show.                          *)
(*                                                                         *)
(* The invariant speaks of the table between kernel sections.  Inside a    *)
(* section it is broken for the CPU that holds the lock; Inside says what  *)
(* is left of it, and lemma YieldRestores that sched_yield restores it.    *)
(***************************************************************************)
EXTENDS EnvSched, TLAPS

\* A CPU that has not booted or is halted has no environment.
IdleIsNull ==
  \A c \in CPU : mode[c] \in {"boot", "halted"} => cur[c] = NULL

\* A slot in use has been given an id.
UsedHasId == \A e \in Env : status[e] # "FREE" => gen[e] # 0

\* The part of the invariant about who runs where.
Placement ==
  OneCpu /\ RunningIsCurrent /\ IdleIsNull /\ MonitorIsIdle /\ NoPanic

\* The inductive invariant.
IInv ==
  /\ TypeOK
  /\ Placement
  /\ FreeListExact
  /\ RecvBlocked
  /\ UsedHasId
  /\ OwnRegisters
  /\ CpunumRight

\* CPU c is in the kernel with curenv = me and status array st: the other CPUs
\* are where the invariant says, and c's own environment is me or none.
Inside(c, st, me) ==
  /\ st \in [Env -> Status]
  /\ me \in Env \cup {NULL}
  /\ \A d \in CPU \ {c} : Runs(d) =>
       cur[d] # NULL /\ cur[d] # me /\ st[cur[d]] \in {"RUNNING", "DYING"}
  /\ \A e \in Env : st[e] \in {"RUNNING", "DYING"} =>
       \/ e = me /\ st[e] = "RUNNING"
       \/ \E d \in CPU \ {c} : Runs(d) /\ cur[d] = e

\* The scheduler only moves environments between RUNNABLE and RUNNING.
KeepsOthers(st) ==
  \A e \in Env : \A s \in {"FREE", "DYING", "NOT_RUNNABLE"} :
    status'[e] = s <=> st[e] = s

\* What CPU c may be doing when it has left the kernel.
Leaves(c) ==
  /\ mode'[c] \in {"pop", "halted", "monitor"}
  /\ \A d \in CPU \ {c} : mode'[d] = mode[d] /\ cur'[d] = cur[d]

TypeOK1 ==
  /\ status \in [Env -> Status]
  /\ cur \in [CPU -> Env \cup {NULL}]
  /\ mode \in [CPU -> Mode]

-----------------------------------------------------------------------------
\* env_run on an environment that is runnable, or that this CPU was running,
\* restores the invariant.
LEMMA RunRestores ==
  ASSUME NEW c \in CPU, NEW st, NEW me, NEW e \in Env,
         TypeOK1, Placement, LockIsFree, Inside(c, st, me),
         st[e] = "RUNNABLE" \/ (e = me /\ st[e] = "RUNNING"),
         EnvRun(c, st, me, e)
  PROVE  TypeOK1' /\ Placement' /\ KeepsOthers(st) /\ Leaves(c)
<1> USE DEF TypeOK1, Inside, EnvRun, Demote, Status, Mode, LockIsFree
<1>1. TypeOK1'
  OBVIOUS
<1>2. status' \in [Env -> Status] /\ KeepsOthers(st)
  BY DEF KeepsOthers
<1>3. Leaves(c) /\ mode'[c] = "pop" /\ cur'[c] = e /\ status'[e] = "RUNNING"
  BY DEF Leaves
<1>4. \A d \in CPU \ {c} : Runs(d)' <=> Runs(d)
  BY <1>3 DEF Leaves, Runs
<1>5. \A d \in CPU \ {c} : Runs(d) => cur[d] # e
  BY DEF Env, NULL
<1>6. OneCpu'
  BY <1>3, <1>4, <1>5 DEF OneCpu, Placement, Leaves
<1>7. RunningIsCurrent'
  <2>1. ASSUME NEW d \in CPU, Runs(d)'
        PROVE  cur'[d] # NULL /\ status'[cur'[d]] \in {"RUNNING", "DYING"}
    BY <2>1, <1>3, <1>4, <1>5 DEF Leaves, Env, NULL
  <2>2. ASSUME NEW f \in Env, status'[f] \in {"RUNNING", "DYING"}
        PROVE  \E d \in CPU : Runs(d)' /\ cur'[d] = f
    BY <2>2, <1>3, <1>4 DEF Leaves, Runs
  <2> QED BY <2>1, <2>2 DEF RunningIsCurrent
<1>8. IdleIsNull'
  BY <1>3 DEF IdleIsNull, Placement, Leaves
<1>9. MonitorIsIdle' /\ NoPanic'
  BY <1>3 DEF MonitorIsIdle, NoPanic, Leaves
<1> QED BY <1>1, <1>2, <1>3, <1>6, <1>7, <1>8, <1>9 DEF Placement

\* sched_halt when nothing is runnable and this CPU's environment gave up.
LEMMA HaltRestores ==
  ASSUME NEW c \in CPU, NEW st, NEW me,
         TypeOK1, Placement, LockIsFree, Inside(c, st, me),
         \A e \in Env : st[e] # "RUNNABLE",
         me # NULL => st[me] # "RUNNING",
         SchedHalt(c, st, me)
  PROVE  TypeOK1' /\ Placement' /\ KeepsOthers(st) /\ Leaves(c)
<1> USE DEF TypeOK1, Inside, SchedHalt, Status, Mode, LockIsFree
<1>1. TypeOK1'
  OBVIOUS
<1>2. KeepsOthers(st) /\ status' = st
  BY DEF KeepsOthers
<1>3. /\ Leaves(c)
      /\ mode'[c] \in {"halted", "monitor"}
      /\ mode'[c] = "halted" => cur'[c] = NULL
  BY DEF Leaves
<1>4. /\ ~ Runs(c)'
      /\ \A d \in CPU \ {c} : Runs(d)' <=> Runs(d)
  BY <1>3 DEF Leaves, Runs
<1>5. OneCpu'
  BY <1>3, <1>4 DEF OneCpu, Placement, Leaves
<1>6. RunningIsCurrent'
  <2>1. ASSUME NEW d \in CPU, Runs(d)'
        PROVE  cur'[d] # NULL /\ status'[cur'[d]] \in {"RUNNING", "DYING"}
    BY <2>1, <1>2, <1>3, <1>4 DEF Leaves
  <2>2. ASSUME NEW f \in Env, status'[f] \in {"RUNNING", "DYING"}
        PROVE  \E d \in CPU : Runs(d)' /\ cur'[d] = f
    BY <2>2, <1>2, <1>3, <1>4 DEF Leaves, Env, NULL
  <2> QED BY <2>1, <2>2 DEF RunningIsCurrent
<1>7. IdleIsNull' /\ NoPanic'
  BY <1>3 DEF IdleIsNull, NoPanic, Placement, Leaves
<1>8. MonitorIsIdle'
  <2>1. mode'[c] = "monitor" => \A d \in CPU \ {c} : ~ Runs(d)
    OBVIOUS
  <2> QED BY <2>1, <1>3, <1>4 DEF MonitorIsIdle, Leaves
<1> QED BY <1>1, <1>2, <1>3, <1>5, <1>6, <1>7, <1>8 DEF Placement

\* sched_yield restores the invariant from any status and curenv that Inside
\* describes.
LEMMA YieldRestores ==
  ASSUME NEW c \in CPU, NEW st, NEW me,
         TypeOK1, Placement, LockIsFree, Inside(c, st, me),
         SchedYield(c, st, me)
  PROVE  TypeOK1' /\ Placement' /\ KeepsOthers(st) /\ Leaves(c)
<1>1. CASE \E e \in Env : Elected(st, me, e) /\ EnvRun(c, st, me, e)
  BY <1>1, RunRestores DEF Elected
<1>2. CASE /\ \A e \in Env : st[e] # "RUNNABLE"
           /\ me # NULL /\ st[me] = "RUNNING"
           /\ EnvRun(c, st, me, me)
  <2>1. me \in Env
    BY <1>2 DEF Inside
  <2> QED BY <1>2, <2>1, RunRestores
<1>3. CASE /\ \A e \in Env : st[e] # "RUNNABLE"
           /\ ~ (me # NULL /\ st[me] = "RUNNING")
           /\ SchedHalt(c, st, me)
  BY <1>3, HaltRestores
<1> QED BY <1>1, <1>2, <1>3 DEF SchedYield

\* So does the end of trap().
LEMMA ReturnRestores ==
  ASSUME NEW c \in CPU, NEW st,
         TypeOK1, Placement, LockIsFree, cur[c] # NULL, Inside(c, st, cur[c]),
         TrapReturn(c, st)
  PROVE  TypeOK1' /\ Placement' /\ KeepsOthers(st) /\ Leaves(c)
<1>1. cur[c] \in Env
  BY DEF TypeOK1
<1>2. CASE st[cur[c]] = "RUNNING"
  BY <1>1, <1>2, RunRestores DEF TrapReturn
<1>3. CASE st[cur[c]] # "RUNNING"
  BY <1>3, YieldRestores DEF TrapReturn
<1> QED BY <1>2, <1>3

-----------------------------------------------------------------------------
(* What Inside says at the calls of sched_yield and at the end of trap(). *)

\* A CPU that boots or wakes up has no environment of its own.
LEMMA InsideIdle ==
  ASSUME NEW c \in CPU, TypeOK1, Placement, mode[c] \in {"boot", "halted"}
  PROVE  cur[c] = NULL /\ Inside(c, status, NULL)
BY DEF TypeOK1, Placement, IdleIsNull, RunningIsCurrent, Inside, Runs

\* A CPU in user mode runs an environment of its own that is ENV_RUNNING, or
\* a zombie.
LEMMA UserRuns ==
  ASSUME NEW c \in CPU, TypeOK1, Placement, mode[c] = "user"
  PROVE  /\ cur[c] \in Env
         /\ cur[c] # NULL
         /\ status[cur[c]] \in {"RUNNING", "DYING"}
         /\ \A d \in CPU \ {c} : Runs(d) => cur[d] # cur[c]
BY DEF TypeOK1, Placement, RunningIsCurrent, OneCpu, Runs

\* A program's trap finds its environment ENV_RUNNING.
LEMMA InsideUser ==
  ASSUME NEW c \in CPU, TypeOK1, Placement, FromUser(c)
  PROVE  status[cur[c]] = "RUNNING" /\ Inside(c, status, cur[c])
<1>1. mode[c] = "user" /\ status[cur[c]] # "DYING"
  BY DEF FromUser
<1> QED BY <1>1, UserRuns DEF TypeOK1, Placement, RunningIsCurrent, Inside

\* Freeing curenv leaves this CPU without an environment.
LEMMA InsideFreed ==
  ASSUME NEW c \in CPU, TypeOK1, Placement, mode[c] = "user"
  PROVE  Inside(c, Freed(cur[c]), NULL)
BY UserRuns
DEF TypeOK1, Placement, RunningIsCurrent, Inside, Freed, Status

\* A caller may change the status of its own environment, and of one that no
\* CPU runs, to a status that means "not on a CPU".
LEMMA InsideSet ==
  ASSUME NEW c \in CPU, TypeOK1, Placement, FromUser(c), NEW e \in Env,
         e = cur[c] \/ status[e] \notin {"RUNNING", "DYING"},
         NEW s \in {"FREE", "RUNNABLE", "NOT_RUNNABLE"}
  PROVE  Inside(c, [status EXCEPT ![e] = s], cur[c])
<1> DEFINE st == [status EXCEPT ![e] = s]
<1>1. mode[c] = "user"
  BY DEF FromUser
<1>2. st \in [Env -> Status] /\ cur[c] \in Env
  BY <1>1, UserRuns DEF TypeOK1, Status
<1>3. ASSUME NEW d \in CPU \ {c}, Runs(d)
      PROVE  cur[d] # NULL /\ cur[d] # cur[c] /\ st[cur[d]] \in {"RUNNING", "DYING"}
  BY <1>1, <1>3, UserRuns DEF TypeOK1, Placement, RunningIsCurrent
<1>4. ASSUME NEW f \in Env, st[f] \in {"RUNNING", "DYING"}
      PROVE  \/ f = cur[c] /\ st[f] = "RUNNING"
             \/ \E d \in CPU \ {c} : Runs(d) /\ cur[d] = f
  BY <1>4, InsideUser DEF Inside, TypeOK1
<1> QED BY <1>2, <1>3, <1>4 DEF Inside

\* Killing an environment that runs elsewhere leaves it to that CPU.
LEMMA InsideDying ==
  ASSUME NEW c \in CPU, TypeOK1, Placement, FromUser(c), NEW e \in Env,
         status[e] = "RUNNING", e # cur[c]
  PROVE  Inside(c, [status EXCEPT ![e] = "DYING"], cur[c])
<1> DEFINE st == [status EXCEPT ![e] = "DYING"]
<1>1. Inside(c, status, cur[c])
  BY InsideUser
<1>2. st \in [Env -> Status]
  BY DEF TypeOK1, Status
<1> QED BY <1>1, <1>2 DEF Inside, TypeOK1

-----------------------------------------------------------------------------
(* The free list *)

\* f lists the members of S, each once.
Lists(f, S) ==
  /\ {f[i] : i \in DOMAIN f} = S
  /\ \A i, j \in DOMAIN f : f[i] = f[j] => i = j

\* env_free: pushing a slot that is not on the list.
LEMMA PushLists ==
  ASSUME NEW f \in Seq(Env), NEW S, Lists(f, S), NEW e \in Env, e \notin S
  PROVE  <<e>> \o f \in Seq(Env) /\ Lists(<<e>> \o f, S \cup {e})
<1> DEFINE g == <<e>> \o f
<1>1. /\ g \in Seq(Env)
      /\ Len(g) = Len(f) + 1
      /\ g[1] = e
      /\ \A i \in 1..Len(f) : g[i + 1] = f[i]
  OBVIOUS
<1>2. \A i \in DOMAIN g : i = 1 \/ (i - 1 \in DOMAIN f /\ g[i] = f[i - 1])
  BY <1>1
<1>3. \A i \in DOMAIN f : i + 1 \in DOMAIN g /\ g[i + 1] = f[i]
  BY <1>1
<1>4. 1 \in DOMAIN g
  BY <1>1
<1>5. {g[i] : i \in DOMAIN g} = S \cup {e}
  <2>1. ASSUME NEW i \in DOMAIN g  PROVE g[i] \in S \cup {e}
    BY <1>1, <1>2 DEF Lists
  <2>2. ASSUME NEW x \in S \cup {e}  PROVE \E i \in DOMAIN g : g[i] = x
    <3>1. CASE x = e
      BY <3>1, <1>1, <1>4
    <3>2. CASE x \in S
      <4>1. PICK i \in DOMAIN f : f[i] = x
        BY <3>2 DEF Lists
      <4> QED BY <4>1, <1>3
    <3> QED BY <3>1, <3>2
  <2> QED BY <2>1, <2>2
<1>6. ASSUME NEW i \in DOMAIN g, NEW j \in DOMAIN g, g[i] = g[j]
      PROVE  i = j
  <2>1. \A k \in DOMAIN f : f[k] # e
    BY DEF Lists
  <2>2. i \in Int /\ j \in Int
    BY <1>1
  <2> QED BY <1>1, <1>2, <1>6, <2>1, <2>2 DEF Lists
<1> QED BY <1>1, <1>5, <1>6 DEF Lists

\* env_alloc: taking the head off the list.
LEMMA PopLists ==
  ASSUME NEW f \in Seq(Env), NEW S, Lists(f, S), f # <<>>
  PROVE  /\ Head(f) \in S /\ Head(f) \in Env
         /\ Tail(f) \in Seq(Env)
         /\ Lists(Tail(f), S \ {Head(f)})
<1> DEFINE g == Tail(f)
<1>1. /\ g \in Seq(Env)
      /\ Len(f) \in Nat \ {0}
      /\ Len(g) = Len(f) - 1
      /\ Head(f) = f[1]
      /\ \A i \in 1..Len(g) : g[i] = f[i + 1]
  OBVIOUS
<1>2. \A i \in DOMAIN g : i + 1 \in DOMAIN f /\ g[i] = f[i + 1] /\ i \in Nat
  BY <1>1
<1>3. \A i \in DOMAIN f : i = 1 \/ (i - 1 \in DOMAIN g /\ f[i] = g[i - 1])
  BY <1>1
<1>4. 1 \in DOMAIN f
  BY <1>1
<1>5. {g[i] : i \in DOMAIN g} = S \ {Head(f)}
  <2>1. ASSUME NEW i \in DOMAIN g  PROVE g[i] \in S /\ g[i] # f[1]
    <3>1. i + 1 \in DOMAIN f /\ i + 1 # 1 /\ g[i] = f[i + 1]
      BY <1>2
    <3> QED BY <3>1, <1>4 DEF Lists
  <2>2. ASSUME NEW x \in S, x # f[1]  PROVE \E i \in DOMAIN g : g[i] = x
    <3>1. PICK i \in DOMAIN f : f[i] = x
      BY DEF Lists
    <3>2. i # 1
      BY <2>2, <3>1
    <3> QED BY <3>1, <3>2, <1>3
  <2> QED BY <1>1, <2>1, <2>2
<1>6. ASSUME NEW i \in DOMAIN g, NEW j \in DOMAIN g, g[i] = g[j]
      PROVE  i = j
  BY <1>2, <1>6 DEF Lists
<1>7. f[1] \in S /\ f[1] \in Env
  BY <1>1, <1>4 DEF Lists
<1> QED BY <1>1, <1>5, <1>6, <1>7 DEF Lists

-----------------------------------------------------------------------------
(* One step of the specification *)

\* The part of the invariant about the fields that the scheduler leaves alone.
Table ==
  /\ gen \in [Env -> 0..MaxGen]
  /\ parent \in [Env -> Id]
  /\ recving \in [Env -> BOOLEAN]
  /\ tf \in [Env -> Id]
  /\ cpunum \in [Env -> CPU]
  /\ regs \in [CPU -> Id]
  /\ UsedHasId /\ OwnRegisters /\ CpunumRight

\* The part about the free list.
FreeOK == free \in Seq(Env) /\ FreeListExact

\* No section but its own CPU's frees a killed environment, and none revives it.
DyingStays ==
  \A f \in Env : status[f] = "DYING" => status'[f] = "DYING"

LEMMA IInvParts == IInv <=> TypeOK1 /\ Placement /\ Table /\ FreeOK /\ RecvBlocked
BY DEF IInv, TypeOK, TypeOK1, Table, FreeOK

\* Under the invariant the trap frame that trap() saves is the one of the
\* environment it is saved in.
LEMMA SavesOwn ==
  ASSUME NEW c \in CPU, TypeOK1, Placement, Table, FromUser(c)
  PROVE  [tf EXCEPT ![cur[c]] = regs[c]] = tf
<1>1. mode[c] = "user"
  BY DEF FromUser
<1>2. cur[c] \in Env /\ status[cur[c]] # "FREE"
  BY <1>1, UserRuns
<1>3. regs[c] = tf[cur[c]]
  BY <1>1, <1>2 DEF Table, OwnRegisters
<1> QED BY <1>2, <1>3 DEF Table

\* A section that hands out no slot and changes no register keeps the table.
LEMMA TableKept ==
  ASSUME NEW c \in CPU, NEW st, TypeOK1, Table, KeepsOthers(st), Leaves(c), TypeOK1',
         \A e \in Env : status[e] = "FREE" => st[e] = "FREE",
         recving' \in [Env -> BOOLEAN],
         UNCHANGED <<gen, parent, tf, cpunum, regs>>
  PROVE  Table'
<1>1. \A e \in Env : status'[e] # "FREE" => status[e] # "FREE"
  BY DEF KeepsOthers
<1>2. \A d \in CPU : mode'[d] = "user" => mode[d] = "user" /\ cur'[d] = cur[d]
  BY DEF Leaves
<1>3. UsedHasId'
  BY <1>1 DEF Table, UsedHasId
<1>4. OwnRegisters'
  BY <1>1, <1>2 DEF Table, OwnRegisters, EnvId
<1>5. CpunumRight'
  BY <1>2 DEF Table, CpunumRight
<1> QED BY <1>3, <1>4, <1>5 DEF Table

\* A section that frees nothing and allocates nothing keeps the free list.
LEMMA FreeKept ==
  ASSUME NEW st, FreeOK, KeepsOthers(st), UNCHANGED free,
         \A e \in Env : status[e] = "FREE" <=> st[e] = "FREE"
  PROVE  FreeOK'
<1>1. \A e \in Env : status'[e] = "FREE" <=> status[e] = "FREE"
  BY DEF KeepsOthers
<1> QED BY <1>1 DEF FreeOK, FreeListExact

\* env_free puts the slot it frees on the free list.
LEMMA FreePushed ==
  ASSUME NEW st, NEW e \in Env, FreeOK, TypeOK1, KeepsOthers(st), EnvFree(e),
         status[e] # "FREE", st = [status EXCEPT ![e] = "FREE"]
  PROVE  FreeOK'
<1> DEFINE S == {f \in Env : status[f] = "FREE"}
<1>1. Lists(free, S) /\ free \in Seq(Env)
  BY DEF FreeOK, FreeListExact, Lists
<1>2. Lists(free', S \cup {e}) /\ free' \in Seq(Env)
  BY <1>1, PushLists DEF EnvFree
<1>3. S \cup {e} = {f \in Env : status'[f] = "FREE"}
  BY DEF KeepsOthers, TypeOK1
<1> QED BY <1>2, <1>3 DEF FreeOK, FreeListExact, Lists

\* A section that starts no receive keeps receivers blocked.
LEMMA RecvKept ==
  ASSUME NEW st, TypeOK1, RecvBlocked, KeepsOthers(st), UNCHANGED recving,
         \A e \in Env : recving[e] /\ status[e] = "NOT_RUNNABLE"
                         => st[e] \in {"NOT_RUNNABLE", "FREE"},
         \A e \in Env : status[e] = "FREE" => st[e] = "FREE"
  PROVE  RecvBlocked'
BY DEF TypeOK1, RecvBlocked, KeepsOthers

-----------------------------------------------------------------------------
(* env_destroy *)

\* A trap that ends in env_destroy keeps the invariant, whichever of its three
\* branches it takes.
LEMMA DestroyKeeps ==
  ASSUME NEW c \in CPU, NEW e \in Env, IInv, FromUser(c), SaveTf(c),
         status[e] \notin {"FREE", "DYING"}, EnvDestroy(c, e)
  PROVE  IInv' /\ DyingStays
<1>1. TypeOK1 /\ Placement /\ Table /\ FreeOK /\ RecvBlocked
  BY IInvParts
<1>2. UNCHANGED <<gen, parent, recving, tf, cpunum, regs>>
  BY <1>1, SavesOwn DEF SaveTf
<1>3. LockIsFree /\ mode[c] = "user" /\ cur[c] \in Env /\ cur[c] # NULL
  BY <1>1, UserRuns DEF FromUser
<1>4. CASE status[e] = "RUNNING" /\ cur[c] # e
  <2> DEFINE st == [status EXCEPT ![e] = "DYING"]
  <2>1. TrapReturn(c, st) /\ UNCHANGED free
    BY <1>4 DEF EnvDestroy
  <2>2. Inside(c, st, cur[c])
    BY <1>1, <1>4, InsideDying
  <2>3. TypeOK1' /\ Placement' /\ KeepsOthers(st) /\ Leaves(c)
    BY <1>1, <1>3, <2>1, <2>2, ReturnRestores
  <2>4. \A f \in Env : status[f] = "FREE" <=> st[f] = "FREE"
    BY <1>1, <1>4 DEF TypeOK1
  <2>5. Table'
    BY <1>1, <1>2, <2>3, <2>4, TableKept DEF Table
  <2>6. FreeOK'
    BY <1>1, <2>1, <2>3, <2>4, FreeKept
  <2>7. \A f \in Env : status[f] = "NOT_RUNNABLE" => st[f] = "NOT_RUNNABLE"
    BY <1>1, <1>4 DEF TypeOK1
  <2>8. RecvBlocked'
    BY <1>1, <1>2, <2>3, <2>4, <2>7, RecvKept
  <2>9. DyingStays
    BY <1>1, <2>3 DEF TypeOK1, KeepsOthers, DyingStays
  <2> QED BY <2>3, <2>5, <2>6, <2>8, <2>9, IInvParts, PTL
<1>5. CASE ~ (status[e] = "RUNNING" /\ cur[c] # e)
  <2>1. EnvFree(e)
    BY <1>5 DEF EnvDestroy
  <2>2. TypeOK1' /\ Placement' /\ KeepsOthers(Freed(e)) /\ Leaves(c)
    <3>1. CASE cur[c] = e
      <4>1. SchedYield(c, Freed(e), NULL)
        BY <1>5, <3>1 DEF EnvDestroy
      <4>2. Inside(c, Freed(e), NULL)
        BY <1>1, <1>3, <3>1, InsideFreed
      <4> QED BY <1>1, <1>3, <4>1, <4>2, YieldRestores
    <3>2. CASE cur[c] # e
      <4>1. TrapReturn(c, Freed(e)) /\ status[e] # "RUNNING"
        BY <1>5, <3>2 DEF EnvDestroy
      <4>2. Inside(c, Freed(e), cur[c])
        BY <1>1, <3>2, <4>1, InsideSet DEF Freed
      <4> QED BY <1>1, <1>3, <4>1, <4>2, ReturnRestores
    <3> QED BY <3>1, <3>2
  <2>3. \A f \in Env : status[f] = "FREE" => Freed(e)[f] = "FREE"
    BY <1>1 DEF TypeOK1, Freed
  <2>4. Table'
    BY <1>1, <1>2, <2>2, <2>3, TableKept DEF Table
  <2>5. FreeOK'
    BY <1>1, <2>1, <2>2, FreePushed DEF Freed
  <2>6. \A f \in Env : status[f] = "NOT_RUNNABLE" =>
          Freed(e)[f] \in {"NOT_RUNNABLE", "FREE"}
    BY <1>1 DEF TypeOK1, Freed
  <2>7. RecvBlocked'
    BY <1>1, <1>2, <2>2, <2>3, <2>6, RecvKept
  <2>8. DyingStays
    BY <1>1, <2>2 DEF TypeOK1, KeepsOthers, DyingStays, Freed
  <2> QED BY <2>2, <2>4, <2>5, <2>7, <2>8, IInvParts, PTL
<1> QED BY <1>4, <1>5

\* A trap that changes at most the status of one environment, e, which no other
\* CPU runs and which is no receiver, and ends at the end of trap() or in
\* sched_yield.
LEMMA SetKeeps ==
  ASSUME NEW c \in CPU, NEW e \in Env, NEW s \in {"RUNNABLE", "NOT_RUNNABLE"},
         IInv, FromUser(c), UNCHANGED <<gen, parent, cpunum, regs, free>>,
         tf' = [tf EXCEPT ![cur[c]] = regs[c]],
         e = cur[c] \/ status[e] \in {"RUNNABLE", "NOT_RUNNABLE"},
         \/ recving' = recving /\ ~ recving[e]
         \/ recving' = [recving EXCEPT ![e] = FALSE]
         \/ recving' = [recving EXCEPT ![e] = TRUE] /\ s = "NOT_RUNNABLE",
         \/ TrapReturn(c, [status EXCEPT ![e] = s])
         \/ SchedYield(c, [status EXCEPT ![e] = s], cur[c])
  PROVE  IInv' /\ DyingStays
<1> DEFINE st == [status EXCEPT ![e] = s]
<1>1. TypeOK1 /\ Placement /\ Table /\ FreeOK /\ RecvBlocked
  BY IInvParts
<1>2. UNCHANGED <<gen, parent, tf, cpunum, regs>>
  BY <1>1, SavesOwn
<1>3. LockIsFree /\ mode[c] = "user" /\ cur[c] \in Env /\ cur[c] # NULL
      /\ status[cur[c]] = "RUNNING"
  BY <1>1, UserRuns, InsideUser DEF FromUser
<1>4. Inside(c, st, cur[c])
  BY <1>1, InsideSet
<1>5. TypeOK1' /\ Placement' /\ KeepsOthers(st) /\ Leaves(c)
  BY <1>1, <1>3, <1>4, ReturnRestores, YieldRestores
<1>6. \A f \in Env : status[f] = "FREE" <=> st[f] = "FREE"
  BY <1>1, <1>3 DEF TypeOK1
<1>7. recving' \in [Env -> BOOLEAN]
  BY <1>1 DEF Table
<1>8. Table'
  BY <1>1, <1>2, <1>5, <1>6, <1>7, TableKept
<1>9. FreeOK'
  BY <1>1, <1>5, <1>6, FreeKept
<1>10. RecvBlocked'
  BY <1>1, <1>5 DEF TypeOK1, RecvBlocked, KeepsOthers, Table
<1>11. DyingStays
  BY <1>1, <1>3, <1>5 DEF TypeOK1, KeepsOthers, DyingStays
<1> QED BY <1>5, <1>8, <1>9, <1>10, <1>11, IInvParts, PTL

\* A trap that changes no status by itself.
LEMMA PlainKeeps ==
  ASSUME NEW c \in CPU, IInv, FromUser(c), SaveTf(c), UNCHANGED free,
         \/ SchedYield(c, status, cur[c])
         \/ TrapReturn(c, status)
         \/ EnvRun(c, status, cur[c], cur[c])
  PROVE  IInv' /\ DyingStays
<1>1. TypeOK1 /\ Placement /\ Table /\ FreeOK /\ RecvBlocked
  BY IInvParts
<1>2. UNCHANGED <<gen, parent, recving, tf, cpunum, regs>>
  BY <1>1, SavesOwn DEF SaveTf
<1>3. LockIsFree /\ mode[c] = "user" /\ cur[c] \in Env /\ cur[c] # NULL
  BY <1>1, UserRuns DEF FromUser
<1>4. status[cur[c]] = "RUNNING" /\ Inside(c, status, cur[c])
  BY <1>1, InsideUser
<1>5. TypeOK1' /\ Placement' /\ KeepsOthers(status) /\ Leaves(c)
  BY <1>1, <1>3, <1>4, ReturnRestores, YieldRestores, RunRestores
<1>6. Table'
  BY <1>1, <1>2, <1>5, TableKept DEF Table
<1>7. FreeOK'
  BY <1>1, <1>5, FreeKept
<1>8. RecvBlocked'
  BY <1>1, <1>2, <1>5, RecvKept
<1>9. DyingStays
  BY <1>1, <1>5 DEF TypeOK1, KeepsOthers, DyingStays
<1> QED BY <1>5, <1>6, <1>7, <1>8, <1>9, IInvParts, PTL

\* Boot, and the timer interrupt on a halted CPU.
LEMMA IdleKeeps ==
  ASSUME NEW c \in CPU, IInv, LockIsFree, mode[c] \in {"boot", "halted"},
         SchedYield(c, status, NULL),
         UNCHANGED <<envTable, cpunum, free, regs>>
  PROVE  IInv' /\ DyingStays
<1>1. TypeOK1 /\ Placement /\ Table /\ FreeOK /\ RecvBlocked
  BY IInvParts
<1>2. UNCHANGED <<gen, parent, recving, tf, cpunum, regs>>
  BY DEF envTable
<1>3. TypeOK1' /\ Placement' /\ KeepsOthers(status) /\ Leaves(c)
  BY <1>1, InsideIdle, YieldRestores
<1>4. Table'
  BY <1>1, <1>2, <1>3, TableKept DEF Table
<1>5. FreeOK'
  BY <1>1, <1>3, FreeKept
<1>6. RecvBlocked'
  BY <1>1, <1>2, <1>3, RecvKept
<1>7. DyingStays
  BY <1>1, <1>3 DEF TypeOK1, KeepsOthers, DyingStays
<1> QED BY <1>3, <1>4, <1>5, <1>6, <1>7, IInvParts, PTL

\* The zombie that trapped is freed.
LEMMA ReapKeeps ==
  ASSUME NEW c \in CPU, IInv, Reap(c)
  PROVE  /\ IInv'
         /\ mode[c] = "user" /\ mode'[c] # "user" /\ cur[c] \in Env
         /\ status'[cur[c]] = "FREE"
         /\ \A f \in Env \ {cur[c]} : status[f] = "DYING" => status'[f] = "DYING"
<1>1. TypeOK1 /\ Placement /\ Table /\ FreeOK /\ RecvBlocked
  BY IInvParts
<1>2. UNCHANGED <<gen, parent, recving, tf, cpunum, regs>>
  BY DEF Reap, envTable
<1>3. LockIsFree /\ mode[c] = "user" /\ cur[c] \in Env /\ status[cur[c]] = "DYING"
  BY <1>1, UserRuns DEF Reap
<1> DEFINE e == cur[c]
<1>4. EnvFree(e) /\ SchedYield(c, Freed(e), NULL)
  BY DEF Reap
<1>5. TypeOK1' /\ Placement' /\ KeepsOthers(Freed(e)) /\ Leaves(c)
  BY <1>1, <1>3, <1>4, InsideFreed, YieldRestores
<1>6. \A f \in Env : status[f] = "FREE" => Freed(e)[f] = "FREE"
  BY <1>1 DEF TypeOK1, Freed
<1>7. Table'
  BY <1>1, <1>2, <1>5, <1>6, TableKept DEF Table
<1>8. FreeOK'
  BY <1>1, <1>3, <1>4, <1>5, FreePushed DEF Freed
<1>9. \A f \in Env : status[f] = "NOT_RUNNABLE" =>
        Freed(e)[f] \in {"NOT_RUNNABLE", "FREE"}
  BY <1>1 DEF TypeOK1, Freed
<1>10. RecvBlocked'
  BY <1>1, <1>2, <1>5, <1>6, <1>9, RecvKept
<1>11. /\ mode'[c] # "user" /\ status'[e] = "FREE"
       /\ \A f \in Env \ {e} : status[f] = "DYING" => status'[f] = "DYING"
  BY <1>1, <1>3, <1>5 DEF TypeOK1, KeepsOthers, Freed, Leaves
<1> QED BY <1>5, <1>7, <1>8, <1>10, <1>3, <1>11, IInvParts, PTL

\* env_pop_tf runs without the lock, but only on what this CPU owns.
LEMMA PopKeeps ==
  ASSUME NEW c \in CPU, IInv, EnvPopTf(c)
  PROVE  IInv' /\ DyingStays
<1>1. TypeOK1 /\ Placement /\ Table /\ FreeOK /\ RecvBlocked
  BY IInvParts
<1>2. /\ mode[c] = "pop" /\ mode' = [mode EXCEPT ![c] = "user"]
      /\ cpunum' = [cpunum EXCEPT ![cur[c]] = c]
      /\ regs' = [regs EXCEPT ![c] = tf[cur[c]]]
      /\ UNCHANGED <<status, gen, parent, recving, tf, free, cur>>
  BY DEF EnvPopTf, envTable
<1>3. /\ cur[c] \in Env /\ cur[c] # NULL /\ status[cur[c]] # "FREE"
      /\ \A d \in CPU \ {c} : Runs(d) => cur[d] # cur[c]
  BY <1>1, <1>2 DEF TypeOK1, Placement, RunningIsCurrent, OneCpu, Runs
<1>4. \A d \in CPU : /\ Runs(d)' <=> Runs(d)
                    /\ d # c => mode'[d] = mode[d]
  BY <1>1, <1>2 DEF Runs, TypeOK1
<1>5. TypeOK1'
  BY <1>1, <1>2 DEF TypeOK1, Mode
<1>6. OneCpu' /\ RunningIsCurrent'
  <2>1. OneCpu'
    BY <1>1, <1>2, <1>4 DEF Placement, OneCpu, Runs
  <2>2. RunningIsCurrent'
    BY <1>1, <1>2, <1>4 DEF Placement, RunningIsCurrent, Runs
  <2> QED BY <2>1, <2>2
<1>7. IdleIsNull' /\ NoPanic' /\ MonitorIsIdle'
  <2>1. \A d \in CPU : mode'[d] = mode[d] \/ mode'[d] = "user"
    BY <1>1, <1>2 DEF TypeOK1
  <2>2. IdleIsNull' /\ NoPanic'
    BY <1>1, <1>2, <2>1 DEF Placement, IdleIsNull, NoPanic
  <2>3. MonitorIsIdle'
    <3>1. \A a \in CPU : mode'[a] = "monitor" => mode[a] = "monitor"
      BY <2>1
    <3>2. mode[c] = "pop" /\ \A a, d \in CPU : mode[a] = "monitor" => ~ Runs(d)
      BY <1>1, <1>2 DEF Placement, MonitorIsIdle
    <3>3. \A a \in CPU : mode'[a] # "monitor"
      BY <3>1, <3>2 DEF Runs
    <3> QED BY <3>3 DEF MonitorIsIdle
  <2> QED BY <2>2, <2>3
<1>8. OwnRegisters'
  BY <1>1, <1>2, <1>3 DEF Table, OwnRegisters, EnvId, TypeOK1
<1>9. CpunumRight'
  BY <1>1, <1>2, <1>3, <1>4 DEF Table, CpunumRight, TypeOK1, Runs
<1>10. Table'
  BY <1>1, <1>2, <1>3, <1>8, <1>9 DEF Table, UsedHasId
<1>11. FreeOK' /\ RecvBlocked'
  BY <1>1, <1>2 DEF FreeOK, FreeListExact, RecvBlocked
<1>12. DyingStays
  BY <1>2 DEF DyingStays
<1> QED BY <1>5, <1>6, <1>7, <1>10, <1>11, <1>12, IInvParts, PTL DEF Placement

\* sys_exofork hands out the head of the free list.
LEMMA ExoforkKeeps ==
  ASSUME NEW c \in CPU, IInv, Exofork(c)
  PROVE  IInv' /\ DyingStays
<1>1. TypeOK1 /\ Placement /\ Table /\ FreeOK /\ RecvBlocked /\ FromUser(c)
  BY IInvParts DEF Exofork
<1> DEFINE e == Head(free)
           S == {f \in Env : status[f] = "FREE"}
           st == [status EXCEPT ![e] = "NOT_RUNNABLE"]
<1>2. Lists(free, S) /\ free \in Seq(Env) /\ free # <<>>
  BY <1>1 DEF FreeOK, FreeListExact, Lists, Exofork
<1>3. /\ e \in Env /\ status[e] = "FREE"
      /\ Tail(free) \in Seq(Env) /\ Lists(Tail(free), S \ {e})
  BY <1>2, PopLists
<1>4. /\ mode[c] = "user" /\ LockIsFree
      /\ cur[c] \in Env /\ cur[c] # NULL /\ status[cur[c]] = "RUNNING"
  BY <1>1, UserRuns, InsideUser DEF FromUser
<1>5. /\ gen' = [gen EXCEPT ![e] = NextGen(gen[e])]
      /\ parent' = [parent EXCEPT ![e] = EnvId(cur[c])]
      /\ recving' = [recving EXCEPT ![e] = FALSE]
      /\ free' = Tail(free)
      /\ tf' = [tf EXCEPT ![cur[c]] = regs[c], ![e] = <<NextGen(gen[e]), e>>]
      /\ TrapReturn(c, st)
      /\ UNCHANGED <<cpunum, regs>>
  BY DEF Exofork, EnvAlloc
<1>6. tf' = [tf EXCEPT ![e] = <<NextGen(gen[e]), e>>]
  BY <1>1, <1>5, SavesOwn
<1>7. TypeOK1' /\ Placement' /\ KeepsOthers(st) /\ Leaves(c)
  <2>1. Inside(c, st, cur[c])
    BY <1>1, <1>3, InsideSet
  <2> QED BY <1>1, <1>4, <1>5, <2>1, ReturnRestores
<1>8. NextGen(gen[e]) \in 1..MaxGen
  BY <1>1, <1>3, EnvAssumption DEF Table, NextGen
<1>9. EnvId(cur[c]) \in Id /\ <<NextGen(gen[e]), e>> \in Id
  <2>1. gen[cur[c]] \in 1..MaxGen
    BY <1>1, <1>4, EnvAssumption DEF Table, UsedHasId
  <2> QED BY <2>1, <1>3, <1>4, <1>8 DEF EnvId, Id
<1>10. /\ gen' \in [Env -> 0..MaxGen] /\ parent' \in [Env -> Id]
       /\ recving' \in [Env -> BOOLEAN] /\ tf' \in [Env -> Id]
  <2>1. NextGen(gen[e]) \in 0..MaxGen
    BY <1>8
  <2>2. gen' \in [Env -> 0..MaxGen]
    BY <1>1, <1>5, <2>1 DEF Table
  <2>3. parent' \in [Env -> Id] /\ recving' \in [Env -> BOOLEAN]
    BY <1>1, <1>5, <1>9 DEF Table
  <2>4. tf' \in [Env -> Id]
    BY <1>1, <1>6, <1>9 DEF Table
  <2> QED BY <2>2, <2>3, <2>4
<1>11. \A f \in Env : f # e => (status'[f] = "FREE" <=> status[f] = "FREE")
  BY <1>1, <1>3, <1>7 DEF KeepsOthers, TypeOK1
<1>12. status'[e] = "NOT_RUNNABLE"
  BY <1>1, <1>3, <1>7 DEF KeepsOthers, TypeOK1
<1>13. UsedHasId'
  <2>1. gen'[e] # 0
    BY <1>1, <1>3, <1>5, <1>8 DEF Table
  <2>2. ASSUME NEW f \in Env, f # e, status'[f] # "FREE"  PROVE gen'[f] # 0
    BY <1>1, <1>5, <1>11, <2>2 DEF Table, UsedHasId
  <2> QED BY <2>1, <2>2 DEF UsedHasId
<1>14. \A d \in CPU : mode'[d] = "user" =>
         mode[d] = "user" /\ cur'[d] = cur[d] /\ cur[d] \in Env /\ cur[d] # e
  BY <1>1, <1>3, <1>7, UserRuns DEF Leaves
<1>15. OwnRegisters'
  <2>1. ASSUME NEW d \in CPU, mode'[d] = "user"
        PROVE  regs'[d] = <<gen'[cur'[d]], cur'[d]>>
    BY <1>1, <1>5, <1>14, <2>1 DEF Table, OwnRegisters, EnvId
  <2>2. ASSUME NEW f \in Env, status'[f] # "FREE"
        PROVE  tf'[f] = <<gen'[f], f>>
    BY <1>1, <1>3, <1>5, <1>6, <1>11, <2>2 DEF Table, OwnRegisters, EnvId
  <2> QED BY <2>1, <2>2 DEF OwnRegisters, EnvId
<1>16. CpunumRight'
  BY <1>1, <1>5, <1>14 DEF Table, CpunumRight
<1>17. Table'
  BY <1>1, <1>5, <1>10, <1>13, <1>15, <1>16 DEF Table
<1>18. FreeOK'
  <2>1. S \ {e} = {f \in Env : status'[f] = "FREE"}
    BY <1>11, <1>12
  <2> QED BY <1>3, <1>5, <2>1 DEF FreeOK, FreeListExact, Lists
<1>19. RecvBlocked'
  BY <1>1, <1>3, <1>5, <1>7 DEF RecvBlocked, KeepsOthers, TypeOK1, Table
<1>20. DyingStays
  BY <1>1, <1>3, <1>7 DEF TypeOK1, KeepsOthers, DyingStays
<1> QED BY <1>7, <1>17, <1>18, <1>19, <1>20, IInvParts, PTL

-----------------------------------------------------------------------------
(* The theorems *)

LEMMA InitIInv == Init => IInv
<1> SUFFICES ASSUME Init PROVE IInv
  OBVIOUS
<1> USE EnvAssumption
<1>1. TypeOK1
  BY DEF Init, TypeOK1, Status, Mode
<1>2. Placement
  BY DEF Init, Placement, OneCpu, RunningIsCurrent, IdleIsNull, MonitorIsIdle,
         NoPanic, Runs
<1>3. Table
  BY DEF Init, Table, UsedHasId, OwnRegisters, CpunumRight, EnvId, Id, NoId, Env
<1>4. FreeOK
  <2>1. free \in Seq(Env)
    BY DEF Init, Env
  <2>2. DOMAIN free = 1..(NENV - NINIT) /\ \A i \in DOMAIN free : free[i] = NINIT + i - 1
    BY DEF Init
  <2>3. ASSUME NEW e \in Env, status[e] = "FREE"
        PROVE  e - NINIT + 1 \in DOMAIN free /\ free[e - NINIT + 1] = e
    BY <2>2, <2>3 DEF Init, Env
  <2>4. ASSUME NEW i \in DOMAIN free
        PROVE  free[i] \in Env /\ status[free[i]] = "FREE"
    BY <2>2 DEF Init, Env
  <2>5. {free[i] : i \in DOMAIN free} = {e \in Env : status[e] = "FREE"}
    BY <2>3, <2>4
  <2>6. \A i, j \in DOMAIN free : free[i] = free[j] => i = j
    BY <2>2
  <2> QED BY <2>1, <2>5, <2>6 DEF FreeOK, FreeListExact
<1>5. RecvBlocked
  BY DEF Init, RecvBlocked
<1> QED BY <1>1, <1>2, <1>3, <1>4, <1>5, IInvParts

\* envid2env returns a slot in use: the caller's own, or the one with that id.
LEMMA FindsUsed ==
  ASSUME NEW c \in CPU, NEW id \in Id, NEW checkperm \in BOOLEAN,
         TypeOK1, Placement, FromUser(c), EnvId2Env(c, id, checkperm) # NULL
  PROVE  /\ EnvId2Env(c, id, checkperm) \in Env
         /\ status[EnvId2Env(c, id, checkperm)] # "FREE"
<1> DEFINE e == IF id = NoId THEN cur[c] ELSE id[2]
<1>1. cur[c] \in Env /\ status[cur[c]] = "RUNNING"
  BY UserRuns, InsideUser DEF FromUser
<1>2. EnvId2Env(c, id, checkperm) = e /\ (id # NoId => status[e] # "FREE")
  BY DEF EnvId2Env
<1>3. id # NoId => id[2] \in Env
  BY DEF Id
<1> QED BY <1>1, <1>2, <1>3

\* A step of the system keeps the invariant, and only its own CPU frees a
\* zombie.
LEMMA StepKeeps ==
  ASSUME Misuse = {}, IInv, Next
  PROVE  /\ IInv'
         /\ \A e \in Env : status[e] = "DYING" /\ status'[e] # "DYING" =>
              /\ status'[e] = "FREE"
              /\ \E d \in CPU : mode[d] = "user" /\ cur[d] = e /\ mode'[d] # "user"
<1> DEFINE Goal == /\ IInv'
                   /\ \A e \in Env : status[e] = "DYING" /\ status'[e] # "DYING" =>
                        /\ status'[e] = "FREE"
                        /\ \E d \in CPU : mode[d] = "user" /\ cur[d] = e /\ mode'[d] # "user"
<1>1. TypeOK1 /\ Placement /\ Table /\ RecvBlocked
  BY IInvParts
<1>2. IInv' /\ DyingStays => Goal
  BY DEF DyingStays
<1> HIDE DEF Goal
<1>3. ASSUME NEW a \in CPU, Boot(a)  PROVE Goal
  BY <1>2, <1>3, IdleKeeps DEF Boot
<1>4. ASSUME NEW a \in CPU, EnvPopTf(a)  PROVE Goal
  BY <1>2, <1>4, PopKeeps
<1>5. ASSUME NEW a \in CPU, Wake(a)  PROVE Goal
  <2>1. cur[a] = NULL
    BY <1>1, <1>5, InsideIdle DEF Wake
  <2> QED BY <1>2, <1>5, <2>1, IdleKeeps DEF Wake
<1>6. ASSUME NEW a \in CPU, Reap(a)  PROVE Goal
  BY <1>6, ReapKeeps DEF Goal
<1>7. ASSUME NEW a \in CPU, Yield(a) \/ ReturnToUser(a) \/ UpCall(a)  PROVE Goal
  BY <1>2, <1>7, PlainKeeps DEF Yield, ReturnToUser, UpCall
<1>8. ASSUME NEW a \in CPU, Exit(a)  PROVE Goal
  <2>1. cur[a] \in Env /\ status[cur[a]] = "RUNNING"
    BY <1>1, <1>8, UserRuns, InsideUser DEF Exit, FromUser
  <2> QED BY <1>2, <1>8, <2>1, DestroyKeeps DEF Exit
<1>9. ASSUME NEW a \in CPU, Exofork(a)  PROVE Goal
  BY <1>2, <1>9, ExoforkKeeps
<1>10. ASSUME NEW a \in CPU, IpcRecv(a)  PROVE Goal
  <2>1. cur[a] \in Env /\ FromUser(a)
    BY <1>1, <1>10, UserRuns DEF IpcRecv, FromUser
  <2> QED BY <1>2, <1>10, <2>1, SetKeeps DEF IpcRecv
<1>11. ASSUME NEW a \in CPU, NEW id \in Id, Destroy(a, id)  PROVE Goal
  <2> DEFINE e == EnvId2Env(a, id, TRUE)
  <2>1. FromUser(a) /\ e # NULL /\ SaveTf(a) /\ EnvDestroy(a, e) /\ status[e] # "DYING"
    BY <1>11 DEF Destroy, MayCall
  <2>2. e \in Env /\ status[e] # "FREE"
    BY <1>1, <2>1, FindsUsed
  <2> QED BY <1>2, <2>1, <2>2, DestroyKeeps
<1>12. ASSUME NEW a \in CPU, NEW id \in Id, IpcTrySend(a, id)  PROVE Goal
  <2> DEFINE e == EnvId2Env(a, id, FALSE)
  <2>1. /\ FromUser(a) /\ e # NULL /\ recving[e]
        /\ tf' = [tf EXCEPT ![cur[a]] = regs[a]]
        /\ recving' = [recving EXCEPT ![e] = FALSE]
        /\ TrapReturn(a, [status EXCEPT ![e] = "RUNNABLE"])
        /\ UNCHANGED <<gen, parent, cpunum, free, regs>>
    BY <1>12 DEF IpcTrySend
  <2>2. e \in Env /\ status[e] # "FREE"
    BY <1>1, <2>1, FindsUsed
  <2>3. status[e] = "NOT_RUNNABLE"
    BY <1>1, <2>1, <2>2 DEF RecvBlocked
  <2> HIDE DEF e
  <2> QED BY <1>2, <2>1, <2>2, <2>3, SetKeeps
<1>13. ASSUME NEW a \in CPU, NEW id \in Id, NEW s \in {"RUNNABLE", "NOT_RUNNABLE"},
              SetStatus(a, id, s)
       PROVE  Goal
  <2> DEFINE e == EnvId2Env(a, id, TRUE)
  <2>1. /\ FromUser(a) /\ e # NULL /\ SaveTf(a)
        /\ TrapReturn(a, [status EXCEPT ![e] = s])
        /\ UNCHANGED free
    BY <1>13 DEF SetStatus
  <2>2. e \in Env /\ status[e] # "FREE"
    BY <1>1, <2>1, FindsUsed
  <2>3. /\ e = cur[a] \/ status[e] \notin {"RUNNING", "DYING"}
        /\ ~ recving[e]
    BY <1>13 DEF SetStatus, MayCall
  <2>4. e = cur[a] \/ status[e] \in {"RUNNABLE", "NOT_RUNNABLE"}
    BY <1>1, <2>2, <2>3 DEF TypeOK1, Status
  <2> HIDE DEF e
  <2> QED BY <1>2, <2>1, <2>2, <2>3, <2>4, SetKeeps DEF SaveTf
<1> QED
  BY <1>3, <1>4, <1>5, <1>6, <1>7, <1>8, <1>9, <1>10, <1>11, <1>12, <1>13
  DEF Next, Goal

LEMMA StutterKeeps == IInv /\ UNCHANGED vars => IInv'
BY DEF vars, IInv, TypeOK, Placement, OneCpu, RunningIsCurrent, IdleIsNull,
       MonitorIsIdle, NoPanic, FreeListExact, RecvBlocked, UsedHasId,
       OwnRegisters, CpunumRight, EnvId, Runs

\* The invariant holds throughout, for any number of CPUs and slots, if no
\* program makes the calls of Misuse.
THEOREM Invariance == Misuse = {} => (Spec => []IInv)
<1> SUFFICES ASSUME Misuse = {} PROVE Spec => []IInv
  OBVIOUS
<1>1. Init => IInv
  BY InitIInv
<1>2. IInv /\ [Next]_vars => IInv'
  BY StepKeeps, StutterKeeps
<1> QED BY <1>1, <1>2, PTL DEF Spec

\* All fields keep their types; ids stay positive.
THEOREM Typing == Misuse = {} => (Spec => []TypeOK)
<1>1. IInv => TypeOK
  BY DEF IInv
<1> QED BY <1>1, Invariance, PTL

\* No environment is executed by two CPUs (sched_yield, env_run).
THEOREM RunsOnce == Misuse = {} => (Spec => []OneCpu)
<1>1. IInv => OneCpu
  BY DEF IInv, Placement
<1> QED BY <1>1, Invariance, PTL

\* ENV_RUNNING and ENV_DYING mean: current on a CPU that executes it.
THEOREM StatusIsTrue == Misuse = {} => (Spec => []RunningIsCurrent)
<1>1. IInv => RunningIsCurrent
  BY DEF IInv, Placement
<1> QED BY <1>1, Invariance, PTL

\* env_free_list is exactly the ENV_FREE slots.
THEOREM FreeList == Misuse = {} => (Spec => []FreeListExact)
<1>1. IInv => FreeListExact
  BY DEF IInv
<1> QED BY <1>1, Invariance, PTL

\* A CPU executes the environment that its curenv says it does, even when the
\* slot has been freed and used again in between.
THEOREM RegistersAreOwn == Misuse = {} => (Spec => []OwnRegisters)
<1>1. IInv => OwnRegisters
  BY DEF IInv
<1> QED BY <1>1, Invariance, PTL

\* env_ipc_recving is set only while its environment is blocked in sys_ipc_recv.
THEOREM ReceiversBlocked == Misuse = {} => (Spec => []RecvBlocked)
<1>1. IInv => RecvBlocked
  BY DEF IInv, Placement
<1> QED BY <1>1, Invariance, PTL

\* The kernel enters its monitor (sched_halt) only when no CPU runs a program.
THEOREM MonitorOnlyWhenIdle == Misuse = {} => (Spec => []MonitorIsIdle)
<1>1. IInv => MonitorIsIdle
  BY DEF IInv, Placement
<1> QED BY <1>1, Invariance, PTL

\* env_cpunum, written by env_pop_tf after the unlock, is right whenever it is read.
THEOREM CpunumNamesTheCpu == Misuse = {} => (Spec => []CpunumRight)
<1>1. IInv => CpunumRight
  BY DEF IInv, Placement
<1> QED BY <1>1, Invariance, PTL

\* No environment is freed twice or run after it was freed.
THEOREM NeverFreedTwice == Misuse = {} => (Spec => []NoPanic)
<1>1. IInv => NoPanic
  BY DEF IInv, Placement
<1> QED BY <1>1, Invariance, PTL

\* A kill is final, and the CPU that runs the zombie is the one that frees it.
THEOREM KillsAreFinal == Misuse = {} => (Spec => ZombieFreedAtTrap)
<1> SUFFICES ASSUME Misuse = {} PROVE Spec => ZombieFreedAtTrap
  OBVIOUS
<1> DEFINE A == \A e \in Env : status[e] = "DYING" /\ status'[e] # "DYING" =>
                 /\ status'[e] = "FREE"
                 /\ \E c \in CPU : mode[c] = "user" /\ cur[c] = e /\ mode'[c] # "user"
<1>1. IInv /\ [Next]_vars => [A]_vars
  BY StepKeeps
<1>2. Spec => []IInv
  BY Invariance
<1> QED BY <1>1, <1>2, PTL DEF Spec, ZombieFreedAtTrap
=============================================================================
