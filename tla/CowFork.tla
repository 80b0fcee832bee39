------------------------------- MODULE CowFork -------------------------------
(***************************************************************************)
(* fork and pgfault of lab4/lib/fork.c, set_pgfault_handler of             *)
(* lab4/lib/pgfault.c and dumbfork of lab4/user/dumbfork.c: user programs  *)
(* that give a child its address space one system call at a time, while    *)
(* they and the programs they forked before go on storing to memory.  A    *)
(* system call is one step, under the kernel lock; the stores of a program *)
(* fall between its own steps and those of all others.                     *)
(*                                                                         *)
(* An address space has four pages: the data of the program, its stack,    *)
(* its exception stack and the scratch page (PFTEMP of inc/memlayout.h for *)
(* pgfault, UTEMP for dumbfork).  The content of a page is one value.      *)
(***************************************************************************)
EXTENDS Naturals, FiniteSets, FiniteSetsExt

CONSTANTS
  Env,      \* environments
  First,    \* the program that starts
  Page,     \* physical pages, numbered
  Value,    \* contents of a page, 0 among them
  None      \* no mapping, no handler at work, no child

VARIABLES
  status,   \* "free", "setup", "run", and what stops the kernel: "panic", "nomem"
  eager,    \* the programs use dumbfork
  forkers,  \* those that fork at all
  pte,      \* the page table of each environment: page and mode "R", "W", "C" (copy-on-write)
  content,  \* the content of each page
  pc,       \* how far the program is in fork; "user" outside
  kid,      \* the child fork is about to return
  perm,     \* perm of duppage
  fix,      \* the page pgfault is at work on and its next step
  upcall,   \* env_pgfault_upcall is set
  seen      \* history: contents of the stack since sys_exofork

forkVars == <<status, eager, forkers, pte, content, pc, kid, perm, fix, upcall, seen>>

Area == {"data", "stack"}             \* what fork copies, in this order
Va   == Area \cup {"xstack", "temp"}
Step == {"user", "handler", "upcall", "exofork", "perm", "child", "self",
         "fresh", "window", "copy", "close", "xstack", "kidcall", "start"}
Fix  == [va : Area, step : {"check", "alloc", "copy", "unmap", "map", "clear"}]

Entries == [page : Page \cup {0}, mode : {"R", "W", "C"}]

\* None is told from the records it stands in for; the kernel image alone leaves
\* more than the two pages the first program starts with.
ASSUME CowForkAssumption ==
  /\ First \in Env /\ Page \subseteq Nat \ {0} /\ 0 \in Value
  /\ \E p, q \in Page : p # q
  /\ None \notin Env \cup Entries \cup Fix

Empty == [va \in Va |-> None]
Entry(p, m) == [page |-> p, mode |-> m]
Mapped(t) == {m.page : m \in {t[e][va] : e \in Env, va \in Va} \ {None}}
Free == Page \ Mapped(pte)

\* The tables become t, and the contents c: a page that nothing maps is free,
\* and page_alloc zeroes it.
Tables(t, c) ==
  /\ pte' = t
  /\ LET live == Mapped(t) IN
     content' = [p \in Page \cup {0} |-> IF p \in live THEN c[p] ELSE 0]

Init ==
  /\ \E taken \in SUBSET (Env \ {First}) :   \* slots of other programs
       status = [e \in Env |-> CASE e = First -> "run" [] e \in taken -> "setup" [] OTHER -> "free"]
  /\ eager \in BOOLEAN /\ forkers \in SUBSET Env
  /\ pte = [e \in Env |-> IF e = First
                          THEN [Empty EXCEPT !["data"] = Entry(Min(Page), "W"),
                                             !["stack"] = Entry(Min(Page \ {Min(Page)}), "W")]
                          ELSE Empty]
  /\ content = [p \in Page \cup {0} |-> 0]
  /\ pc = [e \in Env |-> <<"user", "data">>]
  /\ kid = [e \in Env |-> None]
  /\ perm = [e \in Env |-> None]
  /\ fix = [e \in Env |-> None]
  /\ upcall = [e \in Env |-> FALSE]
  /\ seen = [e \in Env |-> {}]

(* A panic of a user program ends in the kernel monitor, with the lock held: *)
(* nobody enters the kernel any more.                                        *)
Up == \A e \in Env : status[e] \notin {"panic", "nomem"}

At(e, step) == status[e] = "run" /\ fix[e] = None /\ pc[e][1] = step
Goto(e, step) == pc' = [pc EXCEPT ![e] = <<step, @[2]>>]

-----------------------------------------------------------------------------
(* System calls, each with the error path that user code turns into a panic *)

Stop(e, s) ==
  /\ status' = [status EXCEPT ![e] = s]
  /\ seen' = [seen EXCEPT ![e] = {}]
  /\ UNCHANGED <<eager, forkers, pte, content, pc, kid, perm, fix, upcall>>

\* sys_page_alloc with PTE_P | PTE_W | PTE_U, which finds a page.
PageAlloc(to, va) ==
  /\ Up /\ Free # {}
  /\ Tables([pte EXCEPT ![to][va] = Entry(Min(Free), "W")], content)

\* sys_page_map; an empty entry reads as page 0.
PageMap(from, va, to, dst, m) ==
  LET page == IF pte[from][va] = None THEN 0 ELSE pte[from][va].page IN
  /\ Up
  /\ Tables([pte EXCEPT ![to][dst] = Entry(page, m)], content)

PageUnmap(e, va) ==
  /\ Up
  /\ Tables([pte EXCEPT ![e][va] = None], content)

-----------------------------------------------------------------------------
(* Programs *)

\* A program stores v: anywhere, or on its stack while it forks.
Store(e, va, v) ==
  /\ status[e] = "run" /\ fix[e] = None
  /\ va = "stack" \/ pc[e][1] = "user"
  /\ pte[e][va] # None /\ pte[e][va].mode = "W"
  /\ content' = [content EXCEPT ![pte[e][va].page] = v]
  /\ seen' = [seen EXCEPT ![e] = IF @ = {} \/ va # "stack" THEN @ ELSE @ \cup {v}]
  /\ UNCHANGED <<status, eager, forkers, pte, pc, kid, perm, fix, upcall>>

\* The page is not writable: page_fault_handler calls the upcall on the
\* exception stack, or destroys a program that lacks one of the two.
Fault(e, va) ==
  /\ Up /\ status[e] = "run" /\ fix[e] = None
  /\ va = "stack" \/ pc[e][1] = "user"
  /\ pte[e][va] = None \/ pte[e][va].mode # "W"
  /\ IF upcall[e] /\ pte[e]["xstack"] # None
     THEN /\ fix' = [fix EXCEPT ![e] = [va |-> va, step |-> "check"]]
          /\ UNCHANGED <<status, eager, forkers, pte, content, pc, kid, perm, upcall, seen>>
     ELSE Stop(e, "panic")

\* env_free: the program exits, and its slot is free; env_alloc resets the upcall.
Exit(e) ==
  /\ Up /\ status[e] = "run" /\ fix[e] = None /\ pc[e][1] = "user"
  /\ status' = [status EXCEPT ![e] = "free"]
  /\ Tables([pte EXCEPT ![e] = Empty], content)
  /\ upcall' = [upcall EXCEPT ![e] = FALSE]
  /\ UNCHANGED <<eager, forkers, pc, kid, perm, fix, seen>>

-----------------------------------------------------------------------------
(* pgfault *)

Fixing(e, step) == status[e] = "run" /\ fix[e] # None /\ fix[e].step = step
Then(e, step) == fix' = [fix EXCEPT ![e].step = step]

\* utf_err always has the bit FEC_WR, so only the page is tested.
FixCheck(e) ==
  /\ Fixing(e, "check")
  /\ IF pte[e][fix[e].va] # None /\ pte[e][fix[e].va].mode = "C"
     THEN /\ Then(e, "alloc")
          /\ UNCHANGED <<status, eager, forkers, pte, content, pc, kid, perm, upcall, seen>>
     ELSE Up /\ Stop(e, "panic")

FixAlloc(e) ==
  /\ Fixing(e, "alloc") /\ PageAlloc(e, "temp") /\ Then(e, "copy")
  /\ UNCHANGED <<status, eager, forkers, pc, kid, perm, upcall, seen>>

\* Mutant of FixCopy: pgfault unmaps the page before it has copied it.
Mut_FixCopy(e) ==
  /\ Fixing(e, "copy") /\ Then(e, "unmap")
  /\ UNCHANGED <<status, eager, forkers, pte, content, pc, kid, perm, upcall, seen>>

FixCopy(e) ==
  /\ Fixing(e, "copy")
  /\ content' = [content EXCEPT ![pte[e]["temp"].page] = content[pte[e][fix[e].va].page]]
  /\ Then(e, "unmap")
  /\ UNCHANGED <<status, eager, forkers, pte, pc, kid, perm, upcall, seen>>

FixUnmap(e) ==
  /\ Fixing(e, "unmap") /\ PageUnmap(e, fix[e].va) /\ Then(e, "map")
  /\ UNCHANGED <<status, eager, forkers, pc, kid, perm, upcall, seen>>

FixMap(e) ==
  /\ Fixing(e, "map") /\ PageMap(e, "temp", e, fix[e].va, "W") /\ Then(e, "clear")
  /\ UNCHANGED <<status, eager, forkers, pc, kid, perm, upcall, seen>>

\* The last call; the store that faulted is tried again.
FixClear(e) ==
  /\ Fixing(e, "clear") /\ PageUnmap(e, "temp")
  /\ fix' = [fix EXCEPT ![e] = None]
  /\ UNCHANGED <<status, eager, forkers, pc, kid, perm, upcall, seen>>

-----------------------------------------------------------------------------
(* fork *)

\* set_pgfault_handler.  _pgfault_handler, which a child inherits with the
\* data, is set exactly where the exception stack is mapped.
Fork(e) ==
  /\ ~eager /\ e \in forkers /\ At(e, "user")
  /\ Goto(e, IF pte[e]["xstack"] = None THEN "handler" ELSE "exofork")
  /\ UNCHANGED <<status, eager, forkers, pte, content, kid, perm, fix, upcall, seen>>

SetHandler(e) ==
  /\ At(e, "handler") /\ PageAlloc(e, "xstack") /\ Goto(e, "upcall")
  /\ UNCHANGED <<status, eager, forkers, kid, perm, fix, upcall, seen>>

\* sys_env_set_pgfault_upcall, on an environment that exists.
EnvSetPgfaultUpcall(e) == upcall' = [upcall EXCEPT ![e] = TRUE]

SetUpcall(e) ==
  /\ Up /\ At(e, "upcall") /\ EnvSetPgfaultUpcall(e)
  /\ Goto(e, "exofork")
  /\ UNCHANGED <<status, eager, forkers, pte, content, kid, perm, fix, seen>>

DumbFork(e) ==
  /\ eager /\ e \in forkers /\ At(e, "user") /\ Goto(e, "exofork")
  /\ UNCHANGED <<status, eager, forkers, pte, content, kid, perm, fix, upcall, seen>>

\* sys_exofork: the stack the child starts with is the present one or later.
Exofork(e) ==
  /\ Up /\ At(e, "exofork")
  /\ \E c \in Env :
       /\ status[c] = "free"
       /\ status' = [status EXCEPT ![c] = "setup"]
       /\ kid' = [kid EXCEPT ![e] = c]
  /\ seen' = [seen EXCEPT ![e] = {content[pte[e]["stack"].page]}]
  /\ pc' = [pc EXCEPT ![e] = <<IF eager THEN "fresh" ELSE "perm", "data">>]
  /\ UNCHANGED <<eager, forkers, pte, content, perm, fix, upcall>>

\* The page after this one, or the step that follows the loop over all pages.
Advance(e, first, last) ==
  pc' = [pc EXCEPT ![e] = IF @[2] = "data" THEN <<first, "stack">> ELSE <<last, "data">>]

\* duppage reads the permissions of the page, ...
DupPerm(e) ==
  LET m == pte[e][pc[e][2]].mode IN
  /\ At(e, "perm")
  /\ perm' = [perm EXCEPT ![e] = IF m \in {"W", "C"} THEN "C" ELSE "R"]
  /\ Goto(e, "child")
  /\ UNCHANGED <<status, eager, forkers, pte, content, kid, fix, upcall, seen>>

\* ... maps the page into the child, ...
DupChild(e) ==
  /\ At(e, "child") /\ PageMap(e, pc[e][2], kid[e], pc[e][2], perm[e]) /\ Goto(e, "self")
  /\ UNCHANGED <<status, eager, forkers, kid, perm, fix, upcall, seen>>

\* duppage leaves its own mapping as it was.
Mut_DupSelf(e) ==
  /\ Up /\ At(e, "self") /\ Advance(e, "perm", "xstack")
  /\ UNCHANGED <<status, eager, forkers, pte, content, kid, perm, fix, upcall, seen>>

\* ... and over its own mapping.
DupSelf(e) ==
  /\ At(e, "self") /\ PageMap(e, pc[e][2], e, pc[e][2], perm[e])
  /\ Advance(e, "perm", "xstack")
  /\ UNCHANGED <<status, eager, forkers, kid, perm, fix, upcall, seen>>

\* fork leaves the exception stack of the child to the child.
Mut_KidStack(e) ==
  /\ Up /\ At(e, "xstack") /\ Goto(e, "kidcall")
  /\ UNCHANGED <<status, eager, forkers, pte, content, kid, perm, fix, upcall, seen>>

KidStack(e) ==
  /\ At(e, "xstack") /\ PageAlloc(kid[e], "xstack") /\ Goto(e, "kidcall")
  /\ UNCHANGED <<status, eager, forkers, kid, perm, fix, upcall, seen>>

KidUpcall(e) ==
  /\ Up /\ At(e, "kidcall") /\ EnvSetPgfaultUpcall(kid[e])
  /\ Goto(e, "start")
  /\ UNCHANGED <<status, eager, forkers, pte, content, kid, perm, fix, seen>>

\* sys_env_set_status; fork and dumbfork return.
StartKid(e) ==
  /\ Up /\ At(e, "start")
  /\ status' = [status EXCEPT ![kid[e]] = "run"]
  /\ Goto(e, "user")
  /\ kid' = [kid EXCEPT ![e] = None]
  /\ perm' = [perm EXCEPT ![e] = None]
  /\ seen' = [seen EXCEPT ![e] = {}]
  /\ UNCHANGED <<eager, forkers, pte, content, fix, upcall>>

-----------------------------------------------------------------------------
(* duppage of dumbfork *)

EagerFresh(e) ==
  /\ At(e, "fresh") /\ PageAlloc(kid[e], pc[e][2]) /\ Goto(e, "window")
  /\ UNCHANGED <<status, eager, forkers, kid, perm, fix, upcall, seen>>

EagerWindow(e) ==
  /\ At(e, "window") /\ PageMap(kid[e], pc[e][2], e, "temp", "W") /\ Goto(e, "copy")
  /\ UNCHANGED <<status, eager, forkers, kid, perm, fix, upcall, seen>>

EagerCopy(e) ==
  /\ At(e, "copy")
  /\ content' = [content EXCEPT ![pte[e]["temp"].page] = content[pte[e][pc[e][2]].page]]
  /\ Goto(e, "close")
  /\ UNCHANGED <<status, eager, forkers, pte, kid, perm, fix, upcall, seen>>

EagerClose(e) ==
  /\ At(e, "close") /\ PageUnmap(e, "temp") /\ Advance(e, "fresh", "start")
  /\ UNCHANGED <<status, eager, forkers, kid, perm, fix, upcall, seen>>

\* A system call that needs a page, a page table or an environment fails, and
\* the program panics.
NoMemory(e) ==
  /\ Up
  /\ \/ Fixing(e, "alloc") /\ Free = {}
     \/ Fixing(e, "map")
     \/ \E s \in {"handler", "xstack", "fresh"} : At(e, s) /\ Free = {}
     \/ \E s \in {"child", "self", "window"} : At(e, s)
     \/ At(e, "exofork") /\ \A c \in Env : status[c] # "free"
  /\ Stop(e, "nomem")

PageFix(e) == FixCheck(e) \/ FixAlloc(e) \/ FixCopy(e) \/ FixUnmap(e) \/ FixMap(e) \/ FixClear(e)
CowSteps(e) == Fork(e) \/ SetHandler(e) \/ SetUpcall(e) \/ DupPerm(e) \/ DupChild(e)
               \/ DupSelf(e) \/ KidStack(e) \/ KidUpcall(e)
EagerSteps(e) == DumbFork(e) \/ EagerFresh(e) \/ EagerWindow(e) \/ EagerCopy(e) \/ EagerClose(e)

Next ==
  \E e \in Env :
    \/ \E va \in Area : Fault(e, va) \/ \E v \in Value : Store(e, va, v)
    \/ PageFix(e) \/ CowSteps(e) \/ EagerSteps(e)
    \/ Exofork(e) \/ StartKid(e) \/ Exit(e) \/ NoMemory(e)

Spec == Init /\ [][Next]_forkVars

-----------------------------------------------------------------------------
(* Properties *)

TypeOK ==
  /\ status \in [Env -> {"free", "setup", "run", "panic", "nomem"}]
  /\ eager \in BOOLEAN /\ forkers \subseteq Env
  /\ pte \in [Env -> [Va -> {None} \cup Entries]]
  /\ content \in [Page \cup {0} -> Value]
  /\ pc \in [Env -> Step \X Area]
  /\ kid \in [Env -> Env \cup {None}]
  /\ perm \in [Env -> {"R", "C", None}]
  /\ fix \in [Env -> {None} \cup Fix]
  /\ upcall \in [Env -> BOOLEAN]
  /\ seen \in [Env -> SUBSET Value]

\* A page that a running program can store to is mapped nowhere else, except
\* into the child it is setting up: whoever shares a page faults first
\* (duppage and pgfault, lib/fork.c:25 and 72).
WritableIsOwn ==
  \A e, f \in Env : \A a \in Area, b \in Va :
    (/\ status[e] = "run" /\ status[f] # "setup" /\ <<e, a>> # <<f, b>>
     /\ pte[e][a] # None /\ pte[f][b] # None /\ pte[e][a].page = pte[f][b].page
     /\ ~(e = f /\ b = "temp" /\ fix[e] # None))
    => pte[e][a].mode # "W"

\* A program that forks, and all its children, never take a page fault that
\* pgfault refuses or the kernel cannot deliver (lib/fork.c:31, kern/trap.c:394).
NoBadFault == \A e \in Env : status[e] # "panic"

\* The page a program sees at va; while pgfault has nothing mapped there, the
\* copy it is about to map.
Seen(e, va) == content[(IF pte[e][va] = None THEN pte[e]["temp"] ELSE pte[e][va]).page]

Running == {e \in Env : status[e] = "run"}
Memory == [e \in Env |-> IF e \in Running THEN [a \in Area |-> Seen(e, a)] ELSE None]

Abstract == INSTANCE PrivateMemory WITH
  Nothing <- None, running <- Running, mem <- Memory

\* The shared, copied and remapped pages look to every program like memory of
\* its own, and each child starts with that of its parent (lib/fork.c:105).
ImplementsPrivateMemory == Abstract!Spec

==============================================================================
