---------------------------- MODULE CowFork_proofs ----------------------------
(***************************************************************************)
(* Proofs about CowFork for any environments, any number of pages and any  *)
(* contents: no program is ever able to store to a page that somebody else *)
(* sees, no fault is refused, and memory looks private to every program.   *)
(*                                                                         *)
(* Pages are shared, page tables are half copied, and the exceptions to    *)
(* "a writable page is mapped once" are what fork, pgfault and dumbfork    *)
(* have in their hands at that moment.  Exclusive names the three of them. *)
(***************************************************************************)
EXTENDS CowFork, TLAPS, WellFoundedInduction

\* The steps in which the program has a child that has not started.
CowLoop == {"perm", "child", "self"}
EagerLoop == {"fresh", "window", "copy", "close"}
AfterLoop == {"xstack", "kidcall", "start"}
Forking == CowLoop \cup EagerLoop \cup AfterLoop

\* A child belongs to one parent, which has it in its hands, and stays as it is
\* until that parent starts it.
KidsOK ==
  \A e \in Env :
    /\ status[e] \in {"free", "setup"} => pc[e][1] = "user" /\ fix[e] = None
    /\ status[e] = "free" => pte[e] = Empty
    /\ kid[e] # None <=> pc[e][1] \in Forking
    /\ kid[e] # None => status[kid[e]] = "setup"
    /\ \A f \in Env : kid[e] # None /\ kid[e] = kid[f] => e = f
    /\ pc[e][1] \in {"child", "self"} => perm[e] = "C"

\* fork and dumbfork are not mixed; only fork makes a page copy-on-write, and
\* only those of the program.
Modes ==
  \A e \in Env :
    /\ pc[e][1] \in (CowLoop \cup {"xstack", "kidcall", "handler", "upcall"}) => ~eager
    /\ pc[e][1] \in EagerLoop => eager
    /\ \A va \in Va : pte[e][va] # None =>
         /\ pte[e][va].page \in Page
         /\ pte[e][va].mode # "W" => pte[e][va].mode = "C" /\ ~eager /\ va \in Area

\* What pgfault has in its hands at each of its steps.
FixOK ==
  \A e \in Env : fix[e] # None =>
    /\ ~eager
    /\ fix[e].va = "data" => pc[e][1] = "user"
    /\ fix[e].step \in {"check", "alloc", "copy", "unmap"} =>
         pte[e][fix[e].va] # None /\ pte[e][fix[e].va].mode = "C"
    /\ fix[e].step \in {"copy", "unmap", "map", "clear"} => pte[e]["temp"] # None
    /\ fix[e].step = "map" => pte[e][fix[e].va] = None
    /\ fix[e].step = "clear" => pte[e][fix[e].va] # None

\* A program that runs has its data and its stack, but for the page between
\* pgfault's sys_page_unmap and sys_page_map.
AreasOK ==
  \A e \in Env : status[e] = "run" =>
    \A a \in Area : pte[e][a] = None =>
      fix[e] # None /\ fix[e].va = a /\ fix[e].step = "map"

\* A program with copy-on-write pages can take the faults on them.
HandlerOK ==
  \A e \in Env : status[e] = "run" =>
    /\ \A a \in Area : pte[e][a] # None /\ pte[e][a].mode = "C" =>
         upcall[e] /\ pte[e]["xstack"] # None
    /\ pte[e]["xstack"] # None => upcall[e] \/ pc[e][1] = "upcall"
    /\ pc[e][1] = "upcall" => pte[e]["xstack"] # None
    /\ pc[e][1] \in CowLoop \cup AfterLoop \cup {"exofork"} /\ ~eager =>
         upcall[e] /\ pte[e]["xstack"] # None

\* What fork and dumbfork have given the child: all of area a, or only the
\* mapping of it.
Given(e, a) ==
  \/ pc[e][1] \in AfterLoop
  \/ pc[e][1] \in {"self", "close"} /\ pc[e][2] = a
  \/ pc[e][1] \in CowLoop \cup EagerLoop /\ a = "data" /\ pc[e][2] = "stack"

HasChild(e) ==
  /\ \A a \in Area : Given(e, a) => pte[kid[e]][a] # None
  /\ pc[e][1] \in {"window", "copy"} => pte[kid[e]][pc[e][2]] # None
  /\ pc[e][1] \in {"copy", "close"} => pte[e]["temp"] = pte[kid[e]][pc[e][2]]
  /\ ~eager => \A a \in Area : pte[kid[e]][a] # None => pte[kid[e]][a].mode = "C"
  /\ ~eager /\ pc[e][1] \in {"kidcall", "start"} => pte[kid[e]]["xstack"] # None
  /\ pte[kid[e]]["xstack"] # None => ~eager /\ pc[e][1] \in {"kidcall", "start"}
  /\ ~eager /\ pc[e][1] = "start" => upcall[kid[e]]

ChildOK == \A e \in Env : status[e] = "run" /\ kid[e] # None => HasChild(e)

\* The pages on their way: duppage has mapped e's page into the child and not
\* yet over itself; pgfault has the new page mapped twice; duppage of dumbfork
\* has the child's page in its window.
Handing(e, a, f, b) ==
  \/ pc[e][1] = "self" /\ f = kid[e] /\ a = pc[e][2] /\ b = a
  \/ f = e /\ a = "temp" /\ fix[e] # None /\ fix[e].step = "clear" /\ b = fix[e].va
  \/ pc[e][1] \in {"copy", "close"} /\ f = kid[e] /\ a = "temp" /\ b = pc[e][2]

\* Two entries, of one page table or of two, with the same page.
Share(e, a, f, b) ==
  /\ <<e, a>> # <<f, b>> /\ pte[e][a] # None /\ pte[f][b] # None
  /\ pte[e][a].page = pte[f][b].page

\* Whatever is mapped twice is copy-on-write in both places, or on its way.
Exclusive ==
  \A e, f \in Env, a, b \in Va : Share(e, a, f, b) =>
    \/ pte[e][a].mode = "C" /\ pte[f][b].mode = "C"
    \/ Handing(e, a, f, b) \/ Handing(f, b, e, a)

\* The inductive invariant of the page tables.
IInv == TypeOK /\ KidsOK /\ Modes /\ FixOK /\ AreasOK /\ HandlerOK /\ ChildOK /\ Exclusive

\* What the copies hold: the child's data that of its parent, the child's stack
\* one that the parent had since; pgfault's new page what the old one holds.
CopyOK(e) ==
  /\ seen[e] # {} <=> kid[e] # None
  /\ kid[e] # None =>
       /\ Seen(e, "stack") \in seen[e]
       /\ Given(e, "data") => content[pte[kid[e]]["data"].page] = Seen(e, "data")
       /\ Given(e, "stack") => content[pte[kid[e]]["stack"].page] \in seen[e]
  /\ fix[e] # None /\ fix[e].step = "unmap" =>
       content[pte[e]["temp"].page] = content[pte[e][fix[e].va].page]

Copies ==
  \A e \in Env : /\ status[e] = "run" => CopyOK(e)
                 /\ status[e] # "run" => seen[e] = {}

-----------------------------------------------------------------------------
(* What a system call does to the page tables and to what they map *)

\* Entry va of e becomes x; the others stay.
Sets(e, va, x) ==
  /\ pte' \in [Env -> [Va -> {None} \cup Entries]]
  /\ pte'[e][va] = x
  /\ \A f \in Env, b \in Va : f # e \/ b # va => pte'[f][b] = pte[f][b]

\* A page that is mapped keeps its content; the others may be zeroed.
KeepsContent ==
  /\ content' \in [Page \cup {0} -> Value]
  /\ \A f \in Env, b \in Va : pte'[f][b] # None =>
       content'[pte'[f][b].page] = content[pte'[f][b].page]

LEMMA MinMember ==
  ASSUME NEW S, S \subseteq Nat, S # {}
  PROVE  Min(S) \in S
<1> DEFINE R == OpToRel(<, Nat)
<1>1. \E x \in S : \A y \in S : <<y, x>> \notin R
  BY NatLessThanWellFounded, WFMin
<1>2. \A x, y \in Nat : y < x => <<y, x>> \in R
  BY DEF OpToRel
<1> HIDE DEF R
<1>3. PICK x \in S : \A y \in S : <<y, x>> \notin R
  BY <1>1
<1>4. ASSUME NEW y \in S PROVE x =< y
  <2>1. x \in Nat /\ y \in Nat /\ <<y, x>> \notin R
    BY <1>3
  <2>2. ~ (y < x)
    BY <2>1, <1>2
  <2> QED BY <2>1, <2>2
<1> QED BY <1>3, <1>4 DEF Min

LEMMA EntryType ==
  ASSUME NEW p \in Page \cup {0}, NEW m \in {"R", "W", "C"}
  PROVE  /\ Entry(p, m) \in Entries /\ Entry(p, m) # None
         /\ Entry(p, m).page = p /\ Entry(p, m).mode = m
BY CowForkAssumption DEF Entry, Entries

LEMMA TablesKeep ==
  ASSUME TypeOK, NEW e \in Env, NEW va \in Va, NEW x \in {None} \cup Entries,
         Tables([pte EXCEPT ![e][va] = x], content)
  PROVE  Sets(e, va, x) /\ KeepsContent
<1> DEFINE t == [pte EXCEPT ![e][va] = x]
<1>1. /\ t \in [Env -> [Va -> {None} \cup Entries]]
      /\ t[e][va] = x
      /\ \A f \in Env, b \in Va : f # e \/ b # va => t[f][b] = pte[f][b]
  BY DEF TypeOK
<1>2. pte' = t
  BY DEF Tables
<1>3. content' = [p \in Page \cup {0} |-> IF p \in Mapped(t) THEN content[p] ELSE 0]
  BY DEF Tables
<1> HIDE DEF t
<1>4. \A f \in Env, b \in Va : t[f][b] # None => t[f][b].page \in Mapped(t) \cap (Page \cup {0})
  BY <1>1 DEF Mapped, Entries
<1> QED BY <1>1, <1>2, <1>3, <1>4, CowForkAssumption DEF Sets, KeepsContent, TypeOK

\* sys_page_alloc maps a page that was free, that is, mapped nowhere.
LEMMA AllocSets ==
  ASSUME TypeOK, NEW e \in Env, NEW va \in Va, PageAlloc(e, va)
  PROVE  \E p \in Page :
           /\ Sets(e, va, Entry(p, "W")) /\ KeepsContent
           /\ \A f \in Env, b \in Va : pte[f][b] # None => pte[f][b].page # p
<1>1. Free # {} /\ Free \subseteq Nat
  BY CowForkAssumption DEF PageAlloc, Free
<1>2. Min(Free) \in Free
  BY <1>1, MinMember
<1>3. PICK p \in Page : p = Min(Free) /\ p \notin Mapped(pte)
  BY <1>2 DEF Free
<1>4. Sets(e, va, Entry(p, "W")) /\ KeepsContent
  BY <1>3, EntryType, TablesKeep DEF PageAlloc
<1>5. \A f \in Env, b \in Va : pte[f][b] # None => pte[f][b].page # p
  BY <1>3 DEF Mapped
<1> QED BY <1>4, <1>5

LEMMA MapSets ==
  ASSUME TypeOK, NEW e \in Env, NEW va \in Va, NEW f \in Env, NEW b \in Va,
         NEW m \in {"R", "W", "C"}, pte[e][va] # None, PageMap(e, va, f, b, m)
  PROVE  Sets(f, b, Entry(pte[e][va].page, m)) /\ KeepsContent
<1>1. pte[e][va].page \in Page \cup {0}
  BY DEF TypeOK, Entries
<1> QED BY <1>1, EntryType, TablesKeep DEF PageMap

LEMMA UnmapSets ==
  ASSUME TypeOK, NEW e \in Env, NEW va \in Va, PageUnmap(e, va)
  PROVE  Sets(e, va, None) /\ KeepsContent
BY TablesKeep DEF PageUnmap

\* Exclusive is kept by a change of one entry if what is on its way stays on
\* its way, and the new entry shares its page as Exclusive allows.
LEMMA ExclusiveKept ==
  ASSUME Exclusive, NEW to \in Env, NEW dst \in Va, NEW x, Sets(to, dst, x),
         \A e, f \in Env, a, b \in Va :
           (e # to \/ a # dst) /\ (f # to \/ b # dst) /\ Handing(e, a, f, b)
             => Handing(e, a, f, b)' \/ ~Share(e, a, f, b),
         \A f \in Env, b \in Va :
           /\ x # None /\ (f # to \/ b # dst)
           /\ pte[f][b] # None /\ pte[f][b].page = x.page
           => \/ x.mode = "C" /\ pte[f][b].mode = "C"
              \/ Handing(to, dst, f, b)' \/ Handing(f, b, to, dst)'
  PROVE  Exclusive'
<1> SUFFICES ASSUME NEW e \in Env, NEW f \in Env, NEW a \in Va, NEW b \in Va,
                    Share(e, a, f, b)'
             PROVE  \/ pte'[e][a].mode = "C" /\ pte'[f][b].mode = "C"
                    \/ Handing(e, a, f, b)' \/ Handing(f, b, e, a)'
  BY DEF Exclusive
<1>1. CASE e = to /\ a = dst
  BY <1>1 DEF Share, Sets
<1>2. CASE f = to /\ b = dst
  BY <1>2 DEF Share, Sets
<1>3. CASE (e # to \/ a # dst) /\ (f # to \/ b # dst)
  <2>1. pte'[e][a] = pte[e][a] /\ pte'[f][b] = pte[f][b]
    BY <1>3 DEF Sets
  <2>2. Share(e, a, f, b) /\ Share(f, b, e, a)
    BY <2>1 DEF Share
  <2>3. \/ pte[e][a].mode = "C" /\ pte[f][b].mode = "C"
        \/ Handing(e, a, f, b) \/ Handing(f, b, e, a)
    BY <2>2 DEF Exclusive
  <2> QED BY <1>3, <2>1, <2>2, <2>3
<1> QED BY <1>1, <1>2, <1>3

\* It is kept by a step that leaves the page tables alone, too.
LEMMA ExclusiveUnchanged ==
  ASSUME Exclusive, UNCHANGED pte,
         \A e, f \in Env, a, b \in Va : Handing(e, a, f, b) => Handing(e, a, f, b)'
  PROVE  Exclusive'
BY DEF Exclusive, Share
-----------------------------------------------------------------------------
(* The steps that leave the page tables alone *)

\* Where the program counter goes.
PcTo(e, s, a) ==
  /\ pc' \in [Env -> Step \X Area]
  /\ pc'[e][1] = s /\ pc'[e][2] = a
  /\ \A f \in Env : f # e => pc'[f] = pc[f]

LEMMA GotoPc ==
  ASSUME TypeOK, NEW e \in Env, NEW s \in Step, Goto(e, s)
  PROVE  PcTo(e, s, pc[e][2])
<1>1. pc[e][2] \in Area /\ pc \in [Env -> Step \X Area]
  BY DEF TypeOK
<1> QED BY <1>1 DEF Goto, PcTo

LEMMA AdvancePc ==
  ASSUME TypeOK, NEW e \in Env, NEW first \in Step, NEW last \in Step,
         Advance(e, first, last)
  PROVE  \/ pc[e][2] = "data" /\ PcTo(e, first, "stack")
         \/ pc[e][2] = "stack" /\ PcTo(e, last, "data")
<1>1. pc[e][2] \in Area /\ pc \in [Env -> Step \X Area]
  BY DEF TypeOK
<1> QED BY <1>1 DEF Advance, PcTo, Area

\* A child that the step does nothing to, and whose parent is where it was.
LEMMA ChildUntouched ==
  ASSUME TypeOK, NEW f \in Env, kid[f] # None, HasChild(f),
         kid'[f] = kid[f], pc'[f] = pc[f], UNCHANGED eager,
         \A va \in Va : pte'[kid[f]][va] = pte[kid[f]][va],
         pte'[f]["temp"] = pte[f]["temp"],
         upcall[kid[f]] => upcall'[kid[f]]
  PROVE  HasChild(f)'
<1>1. pc[f][2] \in Va
  BY DEF TypeOK, Va
<1> QED BY <1>1 DEF HasChild, Given, Va, Area

\* A panic, or an environment that stops for want of memory.
LEMMA StopKeeps ==
  ASSUME IInv, NEW e \in Env, NEW s \in {"panic", "nomem"}, status[e] = "run", Stop(e, s)
  PROVE  IInv'
<1> USE DEF IInv, Stop
<1>1. TypeOK'
  BY DEF TypeOK
<1>2. /\ status'[e] \notin {"run", "free", "setup"}
      /\ \A f \in Env : f # e => status'[f] = status[f]
  BY DEF TypeOK
<1>3. KidsOK'
  BY <1>2 DEF KidsOK
<1>4. Modes' /\ FixOK'
  BY DEF Modes, FixOK
<1>5. AreasOK' /\ HandlerOK'
  BY <1>2 DEF AreasOK, HandlerOK
<1>6. ChildOK'
  BY <1>2 DEF ChildOK, HasChild, Given
<1>7. Exclusive'
  BY ExclusiveUnchanged DEF Handing
<1> QED BY <1>1, <1>3, <1>4, <1>5, <1>6, <1>7

\* Stores and copies change contents only.
LEMMA ContentKeeps ==
  ASSUME IInv, content' \in [Page \cup {0} -> Value], seen' \in [Env -> SUBSET Value],
         UNCHANGED <<status, eager, forkers, pte, pc, kid, perm, fix, upcall>>
  PROVE  IInv'
<1> USE DEF IInv
<1>1. TypeOK'
  BY DEF TypeOK
<1>2. KidsOK' /\ Modes' /\ FixOK' /\ AreasOK' /\ HandlerOK'
  BY DEF KidsOK, Modes, FixOK, AreasOK, HandlerOK
<1>3. ChildOK'
  BY DEF ChildOK, HasChild, Given
<1>4. Exclusive'
  BY ExclusiveUnchanged DEF Handing
<1> QED BY <1>1, <1>2, <1>3, <1>4

\* pgfault begins: the program runs, all its pages are there, and the one it
\* stored to is copy-on-write.
LEMMA FaultKeeps ==
  ASSUME IInv, NEW e \in Env, NEW va \in Area, Fault(e, va)
  PROVE  IInv'
<1>1. CASE Stop(e, "panic")
  BY <1>1, StopKeeps DEF Fault
<1>2. CASE ~Stop(e, "panic")
  <2>1. /\ status[e] = "run" /\ fix[e] = None
        /\ fix' = [fix EXCEPT ![e] = [va |-> va, step |-> "check"]]
        /\ UNCHANGED <<status, eager, forkers, pte, content, pc, kid, perm, upcall, seen>>
        /\ va = "stack" \/ pc[e][1] = "user"
        /\ pte[e][va] = None \/ pte[e][va].mode # "W"
    BY <1>2 DEF Fault
  <2>2. pte[e][va] # None /\ pte[e][va].mode = "C" /\ ~eager
    BY <2>1 DEF IInv, AreasOK, Modes, Va
  <2>3. [va |-> va, step |-> "check"] \in Fix /\ [va |-> va, step |-> "check"] # None
    BY CowForkAssumption DEF Fix
  <2>4. /\ fix' \in [Env -> {None} \cup Fix] /\ fix'[e] # None
        /\ fix'[e].va = va /\ fix'[e].step = "check"
        /\ \A f \in Env : f # e => fix'[f] = fix[f]
    BY <2>1, <2>3 DEF IInv, TypeOK
  <2> USE DEF IInv
  <2>5. TypeOK'
    BY <2>1, <2>4 DEF TypeOK
  <2>6. KidsOK' /\ Modes' /\ HandlerOK'
    BY <2>1, <2>4 DEF KidsOK, Modes, HandlerOK
  <2>7. FixOK'
    BY <2>1, <2>2, <2>4 DEF FixOK, Area
  <2>8. AreasOK'
    BY <2>1, <2>4 DEF AreasOK
  <2>9. ChildOK'
    BY <2>1 DEF ChildOK, HasChild, Given
  <2>10. \A f, g \in Env, a, b \in Va : Handing(f, a, g, b) => Handing(f, a, g, b)'
    BY <2>1, <2>4 DEF Handing
  <2>11. Exclusive'
    BY <2>1, <2>10, ExclusiveUnchanged
  <2> QED BY <2>5, <2>6, <2>7, <2>8, <2>9, <2>11
<1> QED BY <1>1, <1>2
\* How far pgfault gets.
FixTo(e, s) ==
  /\ fix' \in [Env -> {None} \cup Fix]
  /\ fix'[e] # None /\ fix'[e].va = fix[e].va /\ fix'[e].step = s
  /\ \A f \in Env : f # e => fix'[f] = fix[f]

LEMMA ThenFix ==
  ASSUME TypeOK, NEW e \in Env, fix[e] # None,
         NEW s \in {"check", "alloc", "copy", "unmap", "map", "clear"}, Then(e, s)
  PROVE  FixTo(e, s) /\ fix[e].va \in Area
<1>1. fix[e] \in Fix
  BY DEF TypeOK
<1>2. fix[e] = [va |-> fix[e].va, step |-> fix[e].step] /\ fix[e].va \in Area
  BY <1>1 DEF Fix
<1> DEFINE x == [va |-> fix[e].va, step |-> s]
<1>3. x \in Fix /\ x # None /\ x.va = fix[e].va /\ x.step = s
  BY <1>2, CowForkAssumption DEF Fix
<1>4. [fix[e] EXCEPT !.step = s] = x
  BY <1>2
<1>5. fix' = [fix EXCEPT ![e] = x]
  BY <1>4 DEF Then
<1> HIDE DEF x
<1> QED BY <1>2, <1>3, <1>5 DEF FixTo, TypeOK

\* pgfault finds the page copy-on-write, so it goes on.
LEMMA FixCheckKeeps ==
  ASSUME IInv, NEW e \in Env, FixCheck(e)
  PROVE  IInv'
<1> USE DEF IInv
<1>1. /\ status[e] = "run" /\ fix[e] # None /\ fix[e].step = "check"
      /\ fix[e].va \in Area /\ fix[e] \in Fix
      /\ pte[e][fix[e].va] # None /\ pte[e][fix[e].va].mode = "C"
  BY DEF FixCheck, Fixing, FixOK, TypeOK, Fix
<1>2. /\ Then(e, "alloc")
      /\ UNCHANGED <<status, eager, forkers, pte, content, pc, kid, perm, upcall, seen>>
  BY <1>1 DEF FixCheck
<1>3. /\ fix' \in [Env -> {None} \cup Fix] /\ fix'[e] # None
      /\ fix'[e].va = fix[e].va /\ fix'[e].step = "alloc"
      /\ \A f \in Env : f # e => fix'[f] = fix[f]
  BY <1>1, <1>2, ThenFix DEF FixTo
<1>4. TypeOK'
  BY <1>2, <1>3 DEF TypeOK
<1>5. KidsOK' /\ Modes' /\ HandlerOK'
  BY <1>1, <1>2, <1>3 DEF KidsOK, Modes, HandlerOK
<1>6. FixOK' /\ AreasOK'
  BY <1>1, <1>2, <1>3 DEF FixOK, AreasOK
<1>7. ChildOK'
  BY <1>2 DEF ChildOK, HasChild, Given
<1>8. \A f, g \in Env, a, b \in Va : Handing(f, a, g, b) => Handing(f, a, g, b)'
  BY <1>1, <1>2, <1>3 DEF Handing
<1> QED BY <1>2, <1>4, <1>5, <1>6, <1>7, <1>8, ExclusiveUnchanged

\* fork and dumbfork begin.
LEMMA ForkKeeps ==
  ASSUME IInv, NEW e \in Env, Fork(e) \/ DumbFork(e)
  PROVE  IInv'
<1> USE DEF IInv
<1>1. PICK s \in {"handler", "exofork"} :
        /\ PcTo(e, s, pc[e][2])
        /\ s = "handler" => ~eager
        /\ s = "exofork" => eager \/ pte[e]["xstack"] # None
  BY GotoPc DEF Fork, DumbFork, Step
<1>2. /\ status[e] = "run" /\ fix[e] = None /\ pc[e][1] = "user"
      /\ UNCHANGED <<status, eager, forkers, pte, content, kid, perm, fix, upcall, seen>>
  BY DEF Fork, DumbFork, At
<1>3. TypeOK'
  BY <1>1, <1>2 DEF TypeOK, PcTo
<1>4. KidsOK'
  BY <1>1, <1>2 DEF KidsOK, PcTo, Forking, CowLoop, EagerLoop, AfterLoop
<1>5. Modes' /\ FixOK' /\ AreasOK'
  BY <1>1, <1>2 DEF Modes, FixOK, AreasOK, PcTo, CowLoop, EagerLoop
<1>6. HandlerOK'
  BY <1>1, <1>2 DEF HandlerOK, PcTo, CowLoop, AfterLoop
<1>7. kid[e] = None
  BY <1>2 DEF KidsOK, Forking, CowLoop, EagerLoop, AfterLoop
<1>8. ChildOK'
  BY <1>1, <1>2, <1>7 DEF ChildOK, HasChild, Given, PcTo
<1>9. \A f, g \in Env, a, b \in Va : Handing(f, a, g, b) => Handing(f, a, g, b)'
  BY <1>1, <1>2 DEF Handing, PcTo
<1> QED BY <1>2, <1>3, <1>4, <1>5, <1>6, <1>8, <1>9, ExclusiveUnchanged

\* set_pgfault_handler tells the kernel of the handler, its stack being there.
LEMMA SetUpcallKeeps ==
  ASSUME IInv, NEW e \in Env, SetUpcall(e)
  PROVE  IInv'
<1> USE DEF IInv
<1>1. PcTo(e, "exofork", pc[e][2])
  BY GotoPc DEF SetUpcall, Step
<1>2. /\ status[e] = "run" /\ fix[e] = None /\ pc[e][1] = "upcall"
      /\ upcall' = [upcall EXCEPT ![e] = TRUE]
      /\ UNCHANGED <<status, eager, forkers, pte, content, kid, perm, fix, seen>>
  BY DEF SetUpcall, At, EnvSetPgfaultUpcall
<1>3. /\ upcall' \in [Env -> BOOLEAN] /\ upcall'[e]
      /\ \A f \in Env : f # e => upcall'[f] = upcall[f]
  BY <1>2 DEF TypeOK
<1>4. TypeOK'
  BY <1>1, <1>2, <1>3 DEF TypeOK, PcTo
<1>5. KidsOK'
  BY <1>1, <1>2 DEF KidsOK, PcTo, Forking, CowLoop, EagerLoop, AfterLoop
<1>6. Modes' /\ FixOK' /\ AreasOK'
  BY <1>1, <1>2 DEF Modes, FixOK, AreasOK, PcTo, CowLoop, EagerLoop
<1>7. HandlerOK'
  BY <1>1, <1>2, <1>3 DEF HandlerOK, PcTo, CowLoop, AfterLoop
<1>8. kid[e] = None /\ \A f \in Env : kid[f] # e
  BY <1>2, CowForkAssumption DEF KidsOK, Forking, CowLoop, EagerLoop, AfterLoop
<1>9. ChildOK'
  <2> SUFFICES ASSUME NEW f \in Env, status[f] = "run", kid[f] # None
               PROVE  HasChild(f)'
    BY <1>2 DEF ChildOK
  <2>1. f # e /\ kid[f] \in Env /\ kid[f] # e
    BY <1>8 DEF TypeOK
  <2>2. pc'[f] = pc[f] /\ upcall'[kid[f]] = upcall[kid[f]]
    BY <1>1, <1>3, <2>1 DEF PcTo
  <2> QED BY <1>2, <2>2, ChildUntouched DEF ChildOK
<1>10. \A f, g \in Env, a, b \in Va : Handing(f, a, g, b) => Handing(f, a, g, b)'
  BY <1>1, <1>2 DEF Handing, PcTo
<1> QED BY <1>2, <1>4, <1>5, <1>6, <1>7, <1>9, <1>10, ExclusiveUnchanged

\* sys_exofork hands out a free slot, whose table is empty.
LEMMA ExoforkKeeps ==
  ASSUME IInv, NEW e \in Env, Exofork(e)
  PROVE  IInv'
<1> USE DEF IInv
<1>1. PICK c \in Env :
        /\ status[c] = "free"
        /\ status' = [status EXCEPT ![c] = "setup"]
        /\ kid' = [kid EXCEPT ![e] = c]
  BY DEF Exofork
<1>2. /\ status[e] = "run" /\ fix[e] = None /\ pc[e][1] = "exofork"
      /\ UNCHANGED <<eager, forkers, pte, content, perm, fix, upcall>>
      /\ seen' = [seen EXCEPT ![e] = {content[pte[e]["stack"].page]}]
  BY DEF Exofork, At
<1>3. PcTo(e, IF eager THEN "fresh" ELSE "perm", "data")
  BY DEF Exofork, PcTo, TypeOK, Step, Area
<1>4. content[pte[e]["stack"].page] \in Value
  BY <1>2 DEF AreasOK, TypeOK, Area, Va, Entries
<1>5. /\ kid'[e] = c /\ c # None /\ c # e /\ kid' \in [Env -> Env \cup {None}]
      /\ \A f \in Env : f # e => kid'[f] = kid[f]
      /\ status'[c] = "setup" /\ \A f \in Env : f # c => status'[f] = status[f]
      /\ pte[c] = Empty
      /\ \A f \in Env : kid[f] # c
      /\ pc[c][1] = "user" /\ fix[c] = None
  BY <1>1, <1>2, CowForkAssumption DEF TypeOK, KidsOK
<1>6. TypeOK'
  BY <1>1, <1>2, <1>3, <1>4, <1>5 DEF TypeOK, PcTo
<1>7. KidsOK'
  BY <1>2, <1>3, <1>5 DEF KidsOK, PcTo, Forking, CowLoop, EagerLoop, AfterLoop
<1>8. Modes' /\ FixOK'
  BY <1>2, <1>3 DEF Modes, FixOK, PcTo, CowLoop, EagerLoop
<1>9. AreasOK'
  BY <1>2, <1>5 DEF AreasOK
<1>10. HandlerOK'
  BY <1>2, <1>3, <1>5 DEF HandlerOK, PcTo, CowLoop, AfterLoop
<1>11. ChildOK'
  <2>1. \A va \in Va : pte[c][va] = None
    BY <1>5 DEF Empty
  <2> QED BY <1>2, <1>3, <1>5, <2>1
      DEF ChildOK, HasChild, Given, PcTo, CowLoop, EagerLoop, AfterLoop, Va, Area
<1>12. \A f, g \in Env, a, b \in Va : Handing(f, a, g, b) => Handing(f, a, g, b)'
  BY <1>2, <1>3, <1>5 DEF Handing, PcTo
<1> QED BY <1>2, <1>6, <1>7, <1>8, <1>9, <1>10, <1>11, <1>12, ExclusiveUnchanged
\* duppage reads the permissions: the child's page will be copy-on-write.
LEMMA DupPermKeeps ==
  ASSUME IInv, NEW e \in Env, DupPerm(e)
  PROVE  IInv'
<1> USE DEF IInv
<1>1. /\ status[e] = "run" /\ fix[e] = None /\ pc[e][1] = "perm"
      /\ UNCHANGED <<status, eager, forkers, pte, content, kid, fix, upcall, seen>>
  BY DEF DupPerm, At
<1>2. PcTo(e, "child", pc[e][2])
  BY GotoPc DEF DupPerm, Step
<1>3. pc[e][2] \in Area /\ pc[e][2] \in Va
  BY DEF TypeOK, Va
<1>4. pte[e][pc[e][2]].mode \in {"W", "C"}
  BY <1>1, <1>3 DEF AreasOK, Modes
<1>5. perm' = [perm EXCEPT ![e] = "C"]
  BY <1>4 DEF DupPerm
<1>6. /\ perm' \in [Env -> {"R", "C", None}] /\ perm'[e] = "C"
      /\ \A f \in Env : f # e => perm'[f] = perm[f]
  BY <1>5 DEF TypeOK
<1>7. TypeOK'
  BY <1>1, <1>2, <1>6 DEF TypeOK, PcTo
<1>8. KidsOK'
  BY <1>1, <1>2, <1>6 DEF KidsOK, PcTo, Forking, CowLoop, EagerLoop, AfterLoop
<1>9. Modes' /\ FixOK' /\ AreasOK'
  BY <1>1, <1>2 DEF Modes, FixOK, AreasOK, PcTo, CowLoop, EagerLoop
<1>10. HandlerOK'
  BY <1>1, <1>2 DEF HandlerOK, PcTo, CowLoop, AfterLoop
<1>11. ChildOK'
  BY <1>1, <1>2 DEF ChildOK, HasChild, Given, PcTo, CowLoop, EagerLoop, AfterLoop
<1>12. \A f, g \in Env, a, b \in Va : Handing(f, a, g, b) => Handing(f, a, g, b)'
  BY <1>1, <1>2 DEF Handing, PcTo
<1> QED BY <1>1, <1>7, <1>8, <1>9, <1>10, <1>11, <1>12, ExclusiveUnchanged

\* fork sets the child's upcall.
LEMMA KidUpcallKeeps ==
  ASSUME IInv, NEW e \in Env, KidUpcall(e)
  PROVE  IInv'
<1> USE DEF IInv
<1>1. /\ status[e] = "run" /\ fix[e] = None /\ pc[e][1] = "kidcall"
      /\ upcall' = [upcall EXCEPT ![kid[e]] = TRUE]
      /\ UNCHANGED <<status, eager, forkers, pte, content, kid, perm, fix, seen>>
  BY DEF KidUpcall, At, EnvSetPgfaultUpcall
<1>2. PcTo(e, "start", pc[e][2])
  BY GotoPc DEF KidUpcall, Step
<1>3. kid[e] \in Env /\ kid[e] # None /\ status[kid[e]] = "setup"
  BY <1>1 DEF KidsOK, TypeOK, Forking, AfterLoop
<1>4. /\ upcall' \in [Env -> BOOLEAN] /\ upcall'[kid[e]]
      /\ \A f \in Env : upcall[f] => upcall'[f]
  BY <1>1, <1>3 DEF TypeOK
<1>5. TypeOK'
  BY <1>1, <1>2, <1>4 DEF TypeOK, PcTo
<1>6. KidsOK'
  BY <1>1, <1>2 DEF KidsOK, PcTo, Forking, CowLoop, EagerLoop, AfterLoop
<1>7. Modes' /\ FixOK' /\ AreasOK'
  BY <1>1, <1>2 DEF Modes, FixOK, AreasOK, PcTo, CowLoop, EagerLoop
<1>8. HandlerOK'
  BY <1>1, <1>2, <1>4 DEF HandlerOK, PcTo, CowLoop, AfterLoop
<1>9. ChildOK'
  <2>1. \A f \in Env : kid[f] # None => kid[f] \in Env
    BY DEF TypeOK
  <2> QED BY <1>1, <1>2, <1>4, <2>1
      DEF ChildOK, HasChild, Given, PcTo, CowLoop, EagerLoop, AfterLoop
<1>10. \A f, g \in Env, a, b \in Va : Handing(f, a, g, b) => Handing(f, a, g, b)'
  BY <1>1, <1>2 DEF Handing, PcTo
<1> QED BY <1>1, <1>5, <1>6, <1>7, <1>8, <1>9, <1>10, ExclusiveUnchanged

\* The child that starts has all that a program needs.
LEMMA StartKidKeeps ==
  ASSUME IInv, NEW e \in Env, StartKid(e)
  PROVE  IInv'
<1> USE DEF IInv
<1>1. /\ status[e] = "run" /\ fix[e] = None /\ pc[e][1] = "start"
      /\ status' = [status EXCEPT ![kid[e]] = "run"]
      /\ kid' = [kid EXCEPT ![e] = None]
      /\ perm' = [perm EXCEPT ![e] = None]
      /\ seen' = [seen EXCEPT ![e] = {}]
      /\ UNCHANGED <<eager, forkers, pte, content, fix, upcall>>
  BY DEF StartKid, At
<1>2. PcTo(e, "user", pc[e][2])
  BY GotoPc DEF StartKid, Step
<1>3. PICK c \in Env : c = kid[e]
  BY <1>1 DEF KidsOK, TypeOK, Forking, AfterLoop
<1>4. /\ c # None /\ c # e /\ status[c] = "setup" /\ pc[c][1] = "user" /\ fix[c] = None
      /\ \A f \in Env : f # e => kid[f] # c
  BY <1>1, <1>3, CowForkAssumption DEF KidsOK
<1>5. /\ status'[c] = "run" /\ \A f \in Env : f # c => status'[f] = status[f]
      /\ kid' \in [Env -> Env \cup {None}] /\ kid'[e] = None
      /\ \A f \in Env : f # e => kid'[f] = kid[f] /\ perm'[f] = perm[f] /\ pc'[f] = pc[f]
  BY <1>1, <1>2, <1>3 DEF TypeOK, PcTo
<1>6. /\ \A a \in Area : pte[c][a] # None
      /\ ~eager => /\ upcall[c] /\ pte[c]["xstack"] # None
      /\ eager => pte[c]["xstack"] = None
  BY <1>1, <1>3, <1>4 DEF ChildOK, HasChild, Given, AfterLoop
<1>7. TypeOK'
  BY <1>1, <1>2, <1>3, <1>5 DEF TypeOK, PcTo
<1>8. KidsOK'
  BY <1>1, <1>2, <1>4, <1>5 DEF KidsOK, PcTo, Forking, CowLoop, EagerLoop, AfterLoop
<1>9. Modes' /\ FixOK'
  BY <1>1, <1>2 DEF Modes, FixOK, PcTo, CowLoop, EagerLoop
<1>10. AreasOK'
  BY <1>1, <1>5, <1>6 DEF AreasOK
<1>11. HandlerOK'
  <2>1. \A a \in Area : pte[c][a] # None /\ pte[c][a].mode = "C" => ~eager
    BY DEF Modes, Va
  <2> QED BY <1>1, <1>2, <1>4, <1>5, <1>6, <2>1 DEF HandlerOK, PcTo, CowLoop, AfterLoop
<1>12. ChildOK'
  <2> SUFFICES ASSUME NEW f \in Env, status'[f] = "run", kid'[f] # None
               PROVE  HasChild(f)'
    BY DEF ChildOK
  <2>1. f # e /\ f # c
    BY <1>4, <1>5 DEF KidsOK, Forking, CowLoop, EagerLoop, AfterLoop
  <2>2. status[f] = "run" /\ kid[f] # None
    BY <1>5, <2>1
  <2> QED BY <1>1, <1>5, <2>1, <2>2, ChildUntouched DEF ChildOK
<1>13. \A f, g \in Env, a, b \in Va : Handing(f, a, g, b) => Handing(f, a, g, b)'
  BY <1>1, <1>2, <1>5 DEF Handing
<1> QED BY <1>1, <1>7, <1>8, <1>9, <1>10, <1>11, <1>12, <1>13, ExclusiveUnchanged
\* pgfault, and duppage of dumbfork, copy one page into another.
LEMMA FixCopyKeeps ==
  ASSUME IInv, NEW e \in Env, FixCopy(e)
  PROVE  IInv'
<1> USE DEF IInv
<1>1. /\ status[e] = "run" /\ fix[e] # None /\ fix[e].step = "copy" /\ Then(e, "unmap")
      /\ content' = [content EXCEPT ![pte[e]["temp"].page] = content[pte[e][fix[e].va].page]]
      /\ UNCHANGED <<status, eager, forkers, pte, pc, kid, perm, upcall, seen>>
  BY DEF FixCopy, Fixing
<1>2. FixTo(e, "unmap") /\ fix[e].va \in Area
  BY <1>1, ThenFix
<1>3. content[pte[e][fix[e].va].page] \in Value
  BY <1>1, <1>2 DEF FixOK, TypeOK, Va, Entries
<1>4. content' \in [Page \cup {0} -> Value]
  BY <1>1, <1>3 DEF TypeOK
<1>5. TypeOK'
  BY <1>1, <1>2, <1>4 DEF TypeOK, FixTo
<1>6. KidsOK' /\ Modes' /\ HandlerOK'
  BY <1>1, <1>2 DEF KidsOK, Modes, HandlerOK, FixTo
<1>7. FixOK' /\ AreasOK'
  BY <1>1, <1>2 DEF FixOK, AreasOK, FixTo
<1>8. ChildOK'
  BY <1>1 DEF ChildOK, HasChild, Given
<1>9. \A f, g \in Env, a, b \in Va : Handing(f, a, g, b) => Handing(f, a, g, b)'
  BY <1>1, <1>2 DEF Handing, FixTo
<1> QED BY <1>1, <1>5, <1>6, <1>7, <1>8, <1>9, ExclusiveUnchanged

LEMMA EagerCopyKeeps ==
  ASSUME IInv, NEW e \in Env, EagerCopy(e)
  PROVE  IInv'
<1> USE DEF IInv
<1>1. /\ status[e] = "run" /\ fix[e] = None /\ pc[e][1] = "copy"
      /\ content' = [content EXCEPT ![pte[e]["temp"].page] = content[pte[e][pc[e][2]].page]]
      /\ UNCHANGED <<status, eager, forkers, pte, kid, perm, fix, upcall, seen>>
  BY DEF EagerCopy, At
<1>2. PcTo(e, "close", pc[e][2]) /\ pc[e][2] \in Area /\ pc[e][2] \in Va
  BY GotoPc DEF EagerCopy, Step, TypeOK, Va
<1>3. content[pte[e][pc[e][2]].page] \in Value
  BY <1>1, <1>2 DEF AreasOK, TypeOK, Entries
<1>4. content' \in [Page \cup {0} -> Value]
  BY <1>1, <1>3 DEF TypeOK
<1>5. TypeOK'
  BY <1>1, <1>2, <1>4 DEF TypeOK, PcTo
<1>6. KidsOK'
  BY <1>1, <1>2 DEF KidsOK, PcTo, Forking, CowLoop, EagerLoop, AfterLoop
<1>7. Modes' /\ FixOK' /\ AreasOK'
  BY <1>1, <1>2 DEF Modes, FixOK, AreasOK, PcTo, CowLoop, EagerLoop
<1>8. HandlerOK'
  BY <1>1, <1>2 DEF HandlerOK, PcTo, CowLoop, AfterLoop
<1>9. ChildOK'
  <2> SUFFICES ASSUME NEW f \in Env, status[f] = "run", kid[f] # None
               PROVE  HasChild(f)'
    BY <1>1 DEF ChildOK
  <2>1. HasChild(f)
    BY DEF ChildOK
  <2>2. CASE f # e
    BY <1>1, <1>2, <2>1, <2>2, ChildUntouched DEF PcTo
  <2>3. CASE f = e
    BY <1>1, <1>2, <2>1, <2>3
    DEF HasChild, Given, PcTo, CowLoop, EagerLoop, AfterLoop, Va, Area
  <2> QED BY <2>2, <2>3
<1>10. \A f, g \in Env, a, b \in Va : Handing(f, a, g, b) => Handing(f, a, g, b)'
  BY <1>1, <1>2 DEF Handing, PcTo
<1> QED BY <1>1, <1>5, <1>6, <1>7, <1>8, <1>9, <1>10, ExclusiveUnchanged

-----------------------------------------------------------------------------
(* The steps of pgfault that change the page table *)

\* Children are not concerned by what their parent's pgfault does.
LEMMA FixChildren ==
  ASSUME IInv, NEW e \in Env, NEW va \in Va, NEW x, status[e] = "run", ~eager,
         Sets(e, va, x), UNCHANGED <<status, eager, pc, kid, upcall>>
  PROVE  ChildOK'
<1> USE DEF IInv
<1> SUFFICES ASSUME NEW f \in Env, status[f] = "run", kid[f] # None
             PROVE  HasChild(f)'
  BY DEF ChildOK
<1>1. kid[f] \in Env /\ kid[f] # e
  BY DEF KidsOK, TypeOK
<1>2. \A b \in Va : pte'[kid[f]][b] = pte[kid[f]][b]
  BY <1>1 DEF Sets
<1>3. pc[f][1] \notin {"copy", "close"} /\ pc[f][2] \in Va
  BY DEF Modes, EagerLoop, TypeOK, Va
<1> QED BY <1>2, <1>3 DEF ChildOK, HasChild, Given, Va, Area

LEMMA FixAllocKeeps ==
  ASSUME IInv, NEW e \in Env, FixAlloc(e)
  PROVE  IInv'
<1> USE DEF IInv
<1>1. /\ status[e] = "run" /\ fix[e] # None /\ fix[e].step = "alloc"
      /\ PageAlloc(e, "temp") /\ Then(e, "copy")
      /\ UNCHANGED <<status, eager, forkers, pc, kid, perm, upcall, seen>>
  BY DEF FixAlloc, Fixing
<1>2. FixTo(e, "copy") /\ fix[e].va \in Area
  BY <1>1, ThenFix
<1>3. PICK p \in Page :
        /\ Sets(e, "temp", Entry(p, "W")) /\ KeepsContent
        /\ \A f \in Env, b \in Va : pte[f][b] # None => pte[f][b].page # p
  BY <1>1, AllocSets DEF Va
<1>4. PICK x \in Entries : x = Entry(p, "W") /\ x # None /\ x.page = p /\ x.mode = "W"
  BY EntryType
<1>5. Sets(e, "temp", x)
  BY <1>3, <1>4
<1>6. TypeOK'
  BY <1>1, <1>2, <1>5, <1>3 DEF TypeOK, Sets, KeepsContent, FixTo
<1>7. KidsOK'
  BY <1>1, <1>2, <1>5 DEF KidsOK, FixTo, Sets, Empty
<1>8. Modes'
  BY <1>1, <1>4, <1>5 DEF Modes, Sets
<1>9. FixOK'
  BY <1>1, <1>2, <1>4, <1>5, SMTT(20) DEF FixOK, FixTo, Sets, Va, Area, TypeOK, Fix
<1>10. AreasOK' /\ HandlerOK'
  BY <1>1, <1>2, <1>5 DEF AreasOK, HandlerOK, FixTo, Sets, Va, Area
<1>11. ChildOK'
  BY <1>1, <1>5, FixChildren DEF FixOK, Va
<1>12. Exclusive'
  <2>1. \A f, g \in Env, a, b \in Va : Handing(f, a, g, b) => Handing(f, a, g, b)'
    BY <1>1, <1>2 DEF Handing, FixTo
  <2>2. "temp" \in Va
    BY DEF Va
  <2>3. \A f \in Env, b \in Va : pte[f][b] # None => pte[f][b].page # x.page
    BY <1>3, <1>4
  <2> QED BY <1>5, <2>1, <2>2, <2>3, ExclusiveKept
<1> QED BY <1>6, <1>7, <1>8, <1>9, <1>10, <1>11, <1>12

LEMMA FixUnmapKeeps ==
  ASSUME IInv, NEW e \in Env, FixUnmap(e)
  PROVE  IInv'
<1> USE DEF IInv
<1>1. /\ status[e] = "run" /\ fix[e] # None /\ fix[e].step = "unmap"
      /\ PageUnmap(e, fix[e].va) /\ Then(e, "map")
      /\ UNCHANGED <<status, eager, forkers, pc, kid, perm, upcall, seen>>
  BY DEF FixUnmap, Fixing
<1>2. FixTo(e, "map") /\ fix[e].va \in Area
  BY <1>1, ThenFix
<1>3. PICK va \in Area : va = fix[e].va
  BY <1>2
<1>4. va \in Va
  BY DEF Va
<1>5. Sets(e, va, None) /\ KeepsContent
  BY <1>1, <1>3, <1>4, UnmapSets
<1>6. TypeOK'
  BY <1>1, <1>2, <1>5 DEF TypeOK, Sets, KeepsContent, FixTo
<1>7. KidsOK'
  BY <1>1, <1>2, <1>5, <1>4 DEF KidsOK, FixTo, Sets, Empty
<1>8. Modes'
  BY <1>1, <1>5 DEF Modes, Sets
<1>9. FixOK'
  <2>1. /\ "temp" \in Va /\ va # "temp"
        /\ pte'[e][va] = None /\ pte'[e]["temp"] = pte[e]["temp"]
    BY <1>4, <1>5 DEF Sets, Va, Area
  <2>2. \A f \in Env : f # e => \A b \in Va : pte'[f][b] = pte[f][b]
    BY <1>5 DEF Sets
  <2>3. \A f \in Env : fix[f] # None => fix[f].va \in Va
    BY DEF TypeOK, Fix, Va
  <2> QED BY <1>1, <1>2, <1>3, <2>1, <2>2, <2>3 DEF FixOK, FixTo, Va
<1>10. AreasOK' /\ HandlerOK'
  BY <1>1, <1>2, <1>3, <1>4, <1>5 DEF AreasOK, HandlerOK, FixTo, Sets, Va, Area
<1>11. ChildOK'
  BY <1>1, <1>4, <1>5, FixChildren DEF FixOK
<1>12. Exclusive'
  <2>1. \A f, g \in Env, a, b \in Va : Handing(f, a, g, b) => Handing(f, a, g, b)'
    BY <1>1, <1>2 DEF Handing, FixTo
  <2> QED BY <1>4, <1>5, <2>1, ExclusiveKept
<1> QED BY <1>6, <1>7, <1>8, <1>9, <1>10, <1>11, <1>12

LEMMA FixMapKeeps ==
  ASSUME IInv, NEW e \in Env, FixMap(e)
  PROVE  IInv'
<1> USE DEF IInv
<1>1. /\ status[e] = "run" /\ fix[e] # None /\ fix[e].step = "map"
      /\ PageMap(e, "temp", e, fix[e].va, "W") /\ Then(e, "clear")
      /\ UNCHANGED <<status, eager, forkers, pc, kid, perm, upcall, seen>>
  BY DEF FixMap, Fixing
<1>2. FixTo(e, "clear") /\ fix[e].va \in Area
  BY <1>1, ThenFix
<1>3. PICK va \in Area : va = fix[e].va
  BY <1>2
<1>4. va \in Va /\ va # "temp" /\ "temp" \in Va /\ va # "xstack"
  BY DEF Va, Area
<1>5. pte[e]["temp"] # None /\ pte[e]["temp"].page \in Page /\ pte[e]["temp"].mode = "W"
  BY <1>1, <1>4 DEF FixOK, Modes, Area
<1>6. PICK x \in Entries :
        x = Entry(pte[e]["temp"].page, "W") /\ x # None
        /\ x.page = pte[e]["temp"].page /\ x.mode = "W"
  BY <1>5, EntryType
<1>7. Sets(e, va, x) /\ KeepsContent
  BY <1>1, <1>3, <1>4, <1>5, <1>6, MapSets
<1>8. TypeOK'
  BY <1>1, <1>2, <1>7 DEF TypeOK, Sets, KeepsContent, FixTo
<1>9. KidsOK'
  BY <1>1, <1>2, <1>4, <1>7 DEF KidsOK, FixTo, Sets, Empty
<1>10. Modes'
  BY <1>1, <1>5, <1>6, <1>7 DEF Modes, Sets
<1>11. FixOK'
  BY <1>1, <1>2, <1>3, <1>4, <1>6, <1>7 DEF FixOK, FixTo, Sets, Va, Area, TypeOK, Fix
<1>12. AreasOK' /\ HandlerOK'
  BY <1>1, <1>2, <1>3, <1>4, <1>6, <1>7 DEF AreasOK, HandlerOK, FixTo, Sets, Va, Area
<1>13. ChildOK'
  BY <1>1, <1>4, <1>7, FixChildren DEF FixOK
<1>14. Exclusive'
  <2>1. \A f, g \in Env, a, b \in Va : Handing(f, a, g, b) => Handing(f, a, g, b)'
    BY <1>1, <1>2 DEF Handing, FixTo
  <2>2. Handing(e, "temp", e, va)'
    BY <1>1, <1>2, <1>3 DEF Handing, FixTo
  <2>3. ASSUME NEW f \in Env, NEW b \in Va, f # e \/ b # va,
               pte[f][b] # None, pte[f][b].page = x.page
        PROVE  f = e /\ b = "temp"
    <3>1. SUFFICES ASSUME f # e \/ b # "temp" PROVE FALSE
      OBVIOUS
    <3>2. Share(e, "temp", f, b)
      BY <1>5, <1>6, <2>3, <3>1 DEF Share
    <3>3. Handing(e, "temp", f, b) \/ Handing(f, b, e, "temp")
      BY <1>4, <1>5, <3>2 DEF Exclusive
    <3>4. ~eager /\ \A g \in Env : kid[g] # e
      BY <1>1, CowForkAssumption DEF FixOK, KidsOK
    <3> QED BY <1>1, <1>4, <3>3, <3>4 DEF Handing, Modes, EagerLoop, TypeOK, Area
  <2> QED BY <1>4, <1>7, <2>1, <2>2, <2>3, ExclusiveKept
<1> QED BY <1>8, <1>9, <1>10, <1>11, <1>12, <1>13, <1>14

LEMMA FixClearKeeps ==
  ASSUME IInv, NEW e \in Env, FixClear(e)
  PROVE  IInv'
<1> USE DEF IInv
<1>1. /\ status[e] = "run" /\ fix[e] # None /\ fix[e].step = "clear"
      /\ PageUnmap(e, "temp") /\ fix' = [fix EXCEPT ![e] = None]
      /\ UNCHANGED <<status, eager, forkers, pc, kid, perm, upcall, seen>>
  BY DEF FixClear, Fixing
<1>2. /\ fix' \in [Env -> {None} \cup Fix] /\ fix'[e] = None
      /\ \A f \in Env : f # e => fix'[f] = fix[f]
  BY <1>1 DEF TypeOK
<1>3. Sets(e, "temp", None) /\ KeepsContent
  BY <1>1, UnmapSets DEF Va
<1>4. TypeOK'
  BY <1>1, <1>2, <1>3 DEF TypeOK, Sets, KeepsContent
<1>5. KidsOK'
  BY <1>1, <1>2, <1>3 DEF KidsOK, Sets, Empty
<1>6. Modes'
  BY <1>1, <1>3 DEF Modes, Sets
<1>7. FixOK'
  BY <1>1, <1>2, <1>3 DEF FixOK, Sets, Va, Area, TypeOK, Fix
<1>8. AreasOK' /\ HandlerOK'
  BY <1>1, <1>2, <1>3 DEF AreasOK, HandlerOK, FixOK, Sets, Va, Area
<1>9. ChildOK'
  BY <1>1, <1>3, FixChildren DEF FixOK, Va
<1>10. Exclusive'
  <2>1. \A f, g \in Env, a, b \in Va :
          (f # e \/ a # "temp") /\ Handing(f, a, g, b) => Handing(f, a, g, b)'
    BY <1>1, <1>2 DEF Handing
  <2> QED BY <1>3, <2>1, ExclusiveKept DEF Va
<1> QED BY <1>4, <1>5, <1>6, <1>7, <1>8, <1>9, <1>10
-----------------------------------------------------------------------------
(* The steps of fork that change a page table *)

\* A program's fork loop stands at one of its pages, and is nobody's child.
LEMMA AtFork ==
  ASSUME IInv, NEW e \in Env, NEW s \in Step, At(e, s)
  PROVE  /\ status[e] = "run" /\ fix[e] = None /\ pc[e][1] = s
         /\ pc[e][2] \in Area /\ pc[e][2] \in Va
         /\ \A f \in Env : kid[f] # e
         /\ pte[e][pc[e][2]] # None
         /\ pte[e][pc[e][2]].page \in Page
         /\ s \in Forking => /\ kid[e] \in Env /\ kid[e] # None /\ kid[e] # e
                             /\ status[kid[e]] = "setup"
                             /\ fix[kid[e]] = None /\ pc[kid[e]][1] = "user"
                             /\ \A f \in Env : f # e => kid[f] # kid[e]
<1> USE DEF IInv
<1>1. /\ status[e] = "run" /\ fix[e] = None /\ pc[e][1] = s
      /\ pc[e][2] \in Area /\ pc[e][2] \in Va
  BY DEF At, TypeOK, Va
<1>2. \A f \in Env : kid[f] # e
  BY <1>1, CowForkAssumption DEF KidsOK
<1>3. pte[e][pc[e][2]] # None /\ pte[e][pc[e][2]].page \in Page
  BY <1>1 DEF AreasOK, Modes
<1>4. ASSUME s \in Forking
      PROVE  /\ kid[e] \in Env /\ kid[e] # None /\ kid[e] # e
             /\ status[kid[e]] = "setup"
             /\ fix[kid[e]] = None /\ pc[kid[e]][1] = "user"
             /\ \A f \in Env : f # e => kid[f] # kid[e]
  BY <1>1, <1>2, <1>4 DEF KidsOK, TypeOK
<1> QED BY <1>1, <1>2, <1>3, <1>4

\* A step of the fork loop of e that sets one entry of the page table of e, or
\* of its child.
LoopStep(e, s, a, to, dst, x) ==
  /\ status[e] = "run" /\ fix[e] = None
  /\ PcTo(e, s, a)
  /\ Sets(to, dst, x) /\ KeepsContent
  /\ status[to] # "free" /\ fix[to] = None
  /\ UNCHANGED <<status, eager, forkers, kid, perm, fix, upcall, seen>>

LEMMA LoopKeeps ==
  ASSUME IInv, NEW e \in Env, NEW s \in Step, NEW a \in Area,
         NEW to \in Env, NEW dst \in Va, NEW x, LoopStep(e, s, a, to, dst, x),
         s \in Forking <=> pc[e][1] \in Forking,
         s \in {"child", "self"} => perm[e] = "C",
         s \in CowLoop \cup {"xstack", "kidcall", "handler", "upcall"} => ~eager,
         s \in EagerLoop => eager,
         x # None => /\ x.page \in Page
                     /\ x.mode # "W" => x.mode = "C" /\ ~eager /\ dst \in Area,
         dst \in Area => x # None
  PROVE  TypeOK' /\ KidsOK' /\ Modes' /\ FixOK' /\ AreasOK'
<1> USE DEF IInv, LoopStep
<1>1. TypeOK'
  BY DEF TypeOK, Sets, KeepsContent, PcTo
<1>2. /\ pc'[e][1] = s
      /\ \A f \in Env : f # e => pc'[f] = pc[f]
  BY DEF PcTo
<1>3. /\ pte'[to][dst] = x
      /\ \A f \in Env, b \in Va : f # to \/ b # dst => pte'[f][b] = pte[f][b]
  BY DEF Sets
<1>4. KidsOK'
  <2>1. \A f \in Env : f # to => pte'[f] = pte[f]
    BY <1>3 DEF TypeOK, Sets
  <2>2. \A f \in Env : status[f] = "free" => pte'[f] = Empty
    BY <2>1 DEF KidsOK
  <2>3. ASSUME NEW f \in Env
        PROVE  /\ status[f] \in {"free", "setup"} => pc'[f][1] = "user" /\ fix[f] = None
               /\ kid[f] # None <=> pc'[f][1] \in Forking
               /\ pc'[f][1] \in {"child", "self"} => perm[f] = "C"
    BY <1>2 DEF KidsOK
  <2> QED BY <2>2, <2>3 DEF KidsOK
<1>5. Modes'
  <2>1. ASSUME NEW f \in Env
        PROVE  /\ pc'[f][1] \in (CowLoop \cup {"xstack", "kidcall", "handler", "upcall"}) => ~eager
               /\ pc'[f][1] \in EagerLoop => eager
    BY <1>2 DEF Modes
  <2>2. ASSUME NEW f \in Env, NEW va \in Va, pte'[f][va] # None
        PROVE  /\ pte'[f][va].page \in Page
               /\ pte'[f][va].mode # "W" => pte'[f][va].mode = "C" /\ ~eager /\ va \in Area
    BY <1>3, <2>2 DEF Modes
  <2> QED BY <2>1, <2>2 DEF Modes
<1>6. FixOK'
  <2>1. \A f \in Env : fix[f] # None => f # to /\ f # e /\ fix[f].va \in Va /\ "temp" \in Va
    BY DEF TypeOK, Fix, Va
  <2> QED BY <1>2, <1>3, <2>1 DEF FixOK
<1>7. AreasOK'
  BY <1>3 DEF AreasOK, Va
<1> QED BY <1>1, <1>4, <1>5, <1>6, <1>7

LEMMA SetHandlerKeeps ==
  ASSUME IInv, NEW e \in Env, SetHandler(e)
  PROVE  IInv'
<1> USE DEF IInv
<1>1. /\ At(e, "handler") /\ PageAlloc(e, "xstack")
      /\ UNCHANGED <<status, eager, forkers, kid, perm, fix, upcall, seen>>
  BY DEF SetHandler
<1>2. /\ status[e] = "run" /\ fix[e] = None /\ pc[e][1] = "handler"
      /\ \A f \in Env : kid[f] # e
  BY <1>1, AtFork DEF Step
<1>3. PcTo(e, "upcall", pc[e][2])
  BY GotoPc DEF SetHandler, Step
<1>4. "xstack" \in Va /\ "xstack" \notin Area
  BY DEF Va, Area
<1>5. PICK p \in Page :
        /\ Sets(e, "xstack", Entry(p, "W")) /\ KeepsContent
        /\ \A f \in Env, b \in Va : pte[f][b] # None => pte[f][b].page # p
  BY <1>1, <1>4, AllocSets
<1>6. PICK x \in Entries : x = Entry(p, "W") /\ x # None /\ x.page = p /\ x.mode = "W"
  BY EntryType
<1>7. Sets(e, "xstack", x)
  BY <1>5, <1>6
<1>8. kid[e] = None
  BY <1>2 DEF KidsOK, Forking, CowLoop, EagerLoop, AfterLoop
<1>9. TypeOK' /\ KidsOK' /\ Modes' /\ FixOK' /\ AreasOK'
  <2>1. LoopStep(e, "upcall", pc[e][2], e, "xstack", x)
    BY <1>1, <1>2, <1>3, <1>5, <1>7 DEF LoopStep
  <2>2. ~eager /\ pc[e][2] \in Area
    BY <1>2 DEF Modes, TypeOK
  <2> QED BY <1>2, <1>4, <1>6, <2>1, <2>2, LoopKeeps
      DEF Step, Forking, CowLoop, EagerLoop, AfterLoop
<1>10. HandlerOK'
  BY <1>1, <1>2, <1>3, <1>4, <1>6, <1>7 DEF HandlerOK, Sets, PcTo, CowLoop, AfterLoop, Va, Area
<1>11. ChildOK'
  <2> SUFFICES ASSUME NEW f \in Env, status[f] = "run", kid[f] # None
               PROVE  HasChild(f)'
    BY <1>1 DEF ChildOK
  <2>1. f # e /\ kid[f] \in Env /\ kid[f] # e
    BY <1>2, <1>8 DEF TypeOK
  <2>2. pc'[f] = pc[f] /\ (\A b \in Va : pte'[kid[f]][b] = pte[kid[f]][b])
        /\ pte'[f]["temp"] = pte[f]["temp"]
    BY <1>3, <1>7, <2>1 DEF PcTo, Sets, Va
  <2> QED BY <1>1, <2>2, ChildUntouched DEF ChildOK
<1>12. Exclusive'
  <2>1. \A f, g \in Env, a, b \in Va : Handing(f, a, g, b) => Handing(f, a, g, b)'
    BY <1>1, <1>2, <1>3 DEF Handing, PcTo
  <2>2. \A f \in Env, b \in Va : pte[f][b] # None => pte[f][b].page # x.page
    BY <1>5, <1>6
  <2> QED BY <1>4, <1>7, <2>1, <2>2, ExclusiveKept
<1> QED BY <1>9, <1>10, <1>11, <1>12

\* duppage maps the page into the child.
LEMMA DupChildKeeps ==
  ASSUME IInv, NEW e \in Env, DupChild(e)
  PROVE  IInv'
<1> USE DEF IInv
<1>1. /\ At(e, "child") /\ PageMap(e, pc[e][2], kid[e], pc[e][2], perm[e])
      /\ UNCHANGED <<status, eager, forkers, kid, perm, fix, upcall, seen>>
  BY DEF DupChild
<1>2. /\ status[e] = "run" /\ fix[e] = None /\ pc[e][1] = "child" /\ perm[e] = "C" /\ ~eager
      /\ \A f \in Env : kid[f] # e
  BY <1>1, AtFork DEF Step, KidsOK, Modes, CowLoop
<1>3. PICK v \in Area : v = pc[e][2] /\ v \in Va /\ pte[e][v] # None /\ pte[e][v].page \in Page
  BY <1>1, AtFork DEF Step
<1>4. PICK c \in Env :
        /\ c = kid[e] /\ c # None /\ c # e /\ status[c] = "setup"
        /\ fix[c] = None /\ pc[c][1] = "user" /\ \A f \in Env : f # e => kid[f] # c
  BY <1>1, AtFork DEF Step, Forking, CowLoop
<1>5. PcTo(e, "self", v)
  BY <1>3, GotoPc DEF DupChild, Step
<1>6. PICK x \in Entries :
        x = Entry(pte[e][v].page, "C") /\ x # None /\ x.page = pte[e][v].page /\ x.mode = "C"
  BY <1>3, EntryType
<1>7. Sets(c, v, x) /\ KeepsContent
  BY <1>1, <1>2, <1>3, <1>4, <1>6, MapSets, SMTT(20)
<1>8. TypeOK' /\ KidsOK' /\ Modes' /\ FixOK' /\ AreasOK'
  <2>1. LoopStep(e, "self", v, c, v, x)
    BY <1>1, <1>2, <1>4, <1>5, <1>7 DEF LoopStep
  <2> QED BY <1>2, <1>3, <1>6, <2>1, LoopKeeps
      DEF Step, Forking, CowLoop, EagerLoop, AfterLoop
<1>9. HandlerOK'
  BY <1>1, <1>2, <1>4, <1>5, <1>7 DEF HandlerOK, Sets, PcTo, CowLoop, AfterLoop, Va, Area
<1>10. ChildOK'
  <2> SUFFICES ASSUME NEW f \in Env, status[f] = "run", kid[f] # None
               PROVE  HasChild(f)'
    BY <1>1 DEF ChildOK
  <2>1. CASE f # e
    <3>1. kid[f] # c /\ kid[f] \in Env /\ f # c
      BY <1>4, <2>1 DEF TypeOK
    <3>2. pc'[f] = pc[f] /\ (\A b \in Va : pte'[kid[f]][b] = pte[kid[f]][b])
          /\ pte'[f]["temp"] = pte[f]["temp"]
      BY <1>5, <1>7, <2>1, <3>1, SMTT(20) DEF PcTo, Sets, Va
    <3> QED BY <1>1, <3>2, ChildUntouched DEF ChildOK
  <2>2. CASE f = e
    <3>1. pte'[c][v] = x /\ \A b \in Va : b # v => pte'[c][b] = pte[c][b]
      BY <1>7 DEF Sets
    <3>2. HasChild(e)
      BY <1>2, <1>4, SMTT(20) DEF ChildOK
    <3> QED BY <1>1, <1>2, <1>3, <1>4, <1>5, <1>6, <2>2, <3>1, <3>2
        DEF HasChild, Given, PcTo, CowLoop, EagerLoop, AfterLoop, Va, Area
  <2> QED BY <2>1, <2>2
<1>11. Exclusive'
  <2>1. \A f, g \in Env, a, b \in Va : Handing(f, a, g, b) => Handing(f, a, g, b)'
    BY <1>1, <1>2, <1>5 DEF Handing, PcTo
  <2>2. Handing(e, v, c, v)'
    BY <1>1, <1>4, <1>5 DEF Handing, PcTo
  <2>3. ASSUME NEW f \in Env, NEW b \in Va, f # c \/ b # v,
               pte[f][b] # None, pte[f][b].page = x.page, f # e \/ b # v
        PROVE  pte[f][b].mode = "C"
    <3>1. Share(e, v, f, b)
      BY <1>3, <1>6, <2>3 DEF Share
    <3>2. ~Handing(e, v, f, b) /\ ~Handing(f, b, e, v)
      BY <1>2, <1>3 DEF Handing, Area
    <3> QED BY <1>3, <3>1, <3>2 DEF Exclusive
  <2> QED BY <1>3, <1>6, <1>7, <2>1, <2>2, <2>3, ExclusiveKept, SMTT(20)
<1> QED BY <1>8, <1>9, <1>10, <1>11
\* duppage maps it over the program's own mapping, too.
LEMMA DupSelfKeeps ==
  ASSUME IInv, NEW e \in Env, DupSelf(e)
  PROVE  IInv'
<1> USE DEF IInv
<1>1. /\ At(e, "self") /\ PageMap(e, pc[e][2], e, pc[e][2], perm[e])
      /\ Advance(e, "perm", "xstack")
      /\ UNCHANGED <<status, eager, forkers, kid, perm, fix, upcall, seen>>
  BY SMTT(20) DEF DupSelf
<1>2. /\ status[e] = "run" /\ fix[e] = None /\ pc[e][1] = "self" /\ perm[e] = "C" /\ ~eager
      /\ \A f \in Env : kid[f] # e
  BY <1>1, AtFork DEF Step, KidsOK, Modes, CowLoop
<1>3. PICK v \in Area : v = pc[e][2] /\ v \in Va /\ pte[e][v] # None /\ pte[e][v].page \in Page
  BY <1>1, AtFork DEF Step
<1>4. PICK c \in Env : c = kid[e] /\ c # None /\ c # e
  BY <1>1, AtFork DEF Step, Forking, CowLoop
<1>5. PICK s \in {"perm", "xstack"}, w \in Area :
        /\ PcTo(e, s, w)
        /\ s = "perm" => v = "data" /\ w = "stack"
        /\ s = "xstack" => v = "stack"
  BY <1>1, <1>3, AdvancePc DEF Step, Area
<1>6. PICK x \in Entries :
        x = Entry(pte[e][v].page, "C") /\ x # None /\ x.page = pte[e][v].page /\ x.mode = "C"
  BY <1>3, EntryType
<1>7. Sets(e, v, x) /\ KeepsContent
  BY <1>1, <1>2, <1>3, <1>6, MapSets, SMTT(20)
<1>8. TypeOK' /\ KidsOK' /\ Modes' /\ FixOK' /\ AreasOK'
  <2>1. LoopStep(e, s, w, e, v, x)
    BY <1>1, <1>2, <1>5, <1>7 DEF LoopStep
  <2> QED BY <1>2, <1>3, <1>5, <1>6, <2>1, LoopKeeps
      DEF Step, Forking, CowLoop, EagerLoop, AfterLoop
<1>9. HandlerOK'
  BY <1>1, <1>2, <1>3, <1>5, <1>7 DEF HandlerOK, Sets, PcTo, CowLoop, AfterLoop, Va, Area
<1>10. HasChild(e) /\ \A a \in Area : Given(e, a) \/ a # v
  BY <1>2, <1>3, <1>4 DEF ChildOK, Given
<1>11. ChildOK'
  <2> SUFFICES ASSUME NEW f \in Env, status[f] = "run", kid[f] # None
               PROVE  HasChild(f)'
    BY <1>1 DEF ChildOK
  <2>1. kid[f] \in Env /\ kid[f] # e
    BY <1>2 DEF TypeOK
  <2>2. /\ \A b \in Va : pte'[kid[f]][b] = pte[kid[f]][b]
        /\ pte'[f]["temp"] = pte[f]["temp"]
    BY <1>7, <2>1 DEF Sets, Va, Area
  <2>3. CASE f # e
    BY <1>1, <1>5, <2>2, <2>3, ChildUntouched DEF ChildOK, PcTo
  <2>4. CASE f = e
    BY <1>1, <1>2, <1>3, <1>5, <1>10, <2>2, <2>4, SMTT(20)
    DEF HasChild, Given, PcTo, CowLoop, EagerLoop, AfterLoop, Va, Area
  <2> QED BY <2>3, <2>4
<1>12. Exclusive'
  <2>1. \A f, g \in Env, a, b \in Va :
          (f # e \/ a # v) /\ Handing(f, a, g, b) => Handing(f, a, g, b)'
    BY <1>1, <1>2, <1>3, <1>5 DEF Handing, PcTo
  <2>2. ASSUME NEW f \in Env, NEW b \in Va, f # e \/ b # v,
               pte[f][b] # None, pte[f][b].page = x.page
        PROVE  pte[f][b].mode = "C"
    <3>1. Share(e, v, f, b)
      BY <1>3, <1>6, <2>2 DEF Share
    <3>2. ~Handing(f, b, e, v)
      BY <1>2, <1>3 DEF Handing, Area
    <3>3. Handing(e, v, f, b) => pte[f][b].mode = "C"
      BY <1>2, <1>3, <1>4, <1>10, <2>2 DEF Handing, HasChild, Area
    <3> QED BY <1>3, <3>1, <3>2, <3>3 DEF Exclusive
  <2> QED BY <1>3, <1>6, <1>7, <2>1, <2>2, ExclusiveKept
<1> QED BY <1>8, <1>9, <1>11, <1>12

\* A fresh page for the child: its exception stack in fork, one of its areas
\* in dumbfork.
LEMMA ChildPageKeeps ==
  ASSUME IInv, NEW e \in Env, KidStack(e) \/ EagerFresh(e)
  PROVE  IInv'
<1> USE DEF IInv
<1>1. PICK s \in {"kidcall", "window"}, va \in Va, t \in {"xstack", "fresh"} :
        /\ At(e, t) /\ PageAlloc(kid[e], va) /\ Goto(e, s)
        /\ s = "kidcall" => t = "xstack" /\ va = "xstack"
        /\ s = "window" => t = "fresh" /\ va = pc[e][2]
        /\ UNCHANGED <<status, eager, forkers, kid, perm, fix, upcall, seen>>
  <2>1. pc[e][2] \in Va
    BY DEF TypeOK, Va
  <2> QED BY <2>1 DEF KidStack, EagerFresh, Va
<1>2. /\ status[e] = "run" /\ fix[e] = None /\ pc[e][1] = t
      /\ \A f \in Env : kid[f] # e
      /\ s = "kidcall" => ~eager
      /\ s = "window" => eager
  BY <1>1, AtFork DEF Step, Modes, CowLoop, EagerLoop
<1>3. PICK v \in Area : v = pc[e][2]
  BY DEF TypeOK
<1>4. PICK c \in Env :
        /\ c = kid[e] /\ c # None /\ c # e /\ status[c] = "setup"
        /\ fix[c] = None /\ pc[c][1] = "user" /\ \A f \in Env : f # e => kid[f] # c
  BY <1>1, AtFork DEF Step, Forking, CowLoop, EagerLoop, AfterLoop
<1>5. PcTo(e, s, v)
  BY <1>1, <1>3, GotoPc DEF Step
<1>6. PICK p \in Page :
        /\ Sets(c, va, Entry(p, "W")) /\ KeepsContent
        /\ \A f \in Env, b \in Va : pte[f][b] # None => pte[f][b].page # p
  BY <1>1, <1>4, AllocSets
<1>7. PICK x \in Entries : x = Entry(p, "W") /\ x # None /\ x.page = p /\ x.mode = "W"
  BY EntryType
<1>8. Sets(c, va, x)
  BY <1>6, <1>7
<1>9. TypeOK' /\ KidsOK' /\ Modes' /\ FixOK' /\ AreasOK'
  <2>1. LoopStep(e, s, v, c, va, x)
    BY <1>1, <1>2, <1>4, <1>5, <1>6, <1>8 DEF LoopStep
  <2> QED BY <1>1, <1>2, <1>7, <2>1, LoopKeeps
      DEF Step, Forking, CowLoop, EagerLoop, AfterLoop
<1>10. HandlerOK'
  BY <1>1, <1>2, <1>4, <1>5, <1>8 DEF HandlerOK, Sets, PcTo, CowLoop, AfterLoop, Va, Area
<1>11. ChildOK'
  <2> SUFFICES ASSUME NEW f \in Env, status[f] = "run", kid[f] # None
               PROVE  HasChild(f)'
    BY <1>1 DEF ChildOK
  <2>1. CASE f # e
    <3>1. kid[f] # c /\ kid[f] \in Env /\ f # c
      BY <1>4, <2>1 DEF TypeOK
    <3>2. pc'[f] = pc[f] /\ (\A b \in Va : pte'[kid[f]][b] = pte[kid[f]][b])
          /\ pte'[f]["temp"] = pte[f]["temp"]
      BY <1>5, <1>8, <2>1, <3>1 DEF PcTo, Sets, Va
    <3> QED BY <1>1, <3>2, ChildUntouched DEF ChildOK
  <2>2. CASE f = e
    <3>1. pte'[c][va] = x /\ \A b \in Va : b # va => pte'[c][b] = pte[c][b]
      BY <1>8 DEF Sets
    <3>2. HasChild(e)
      BY <1>2, <1>4 DEF ChildOK
    <3> QED BY <1>1, <1>2, <1>3, <1>4, <1>5, <1>7, <2>2, <3>1, <3>2
        DEF HasChild, Given, PcTo, CowLoop, EagerLoop, AfterLoop, Va, Area
  <2> QED BY <2>1, <2>2
<1>12. Exclusive'
  <2>1. \A f, g \in Env, a, b \in Va : Handing(f, a, g, b) => Handing(f, a, g, b)'
    BY <1>1, <1>2, <1>5 DEF Handing, PcTo
  <2>2. \A f \in Env, b \in Va : pte[f][b] # None => pte[f][b].page # x.page
    BY <1>6, <1>7
  <2> QED BY <1>8, <2>1, <2>2, ExclusiveKept
<1> QED BY <1>9, <1>10, <1>11, <1>12

\* duppage of dumbfork maps the child's page into the window.
LEMMA EagerWindowKeeps ==
  ASSUME IInv, NEW e \in Env, EagerWindow(e)
  PROVE  IInv'
<1> USE DEF IInv
<1>1. /\ At(e, "window") /\ PageMap(kid[e], pc[e][2], e, "temp", "W")
      /\ UNCHANGED <<status, eager, forkers, kid, perm, fix, upcall, seen>>
  BY DEF EagerWindow
<1>2. /\ status[e] = "run" /\ fix[e] = None /\ pc[e][1] = "window" /\ eager
      /\ \A f \in Env : kid[f] # e
  BY <1>1, AtFork DEF Step, Modes, EagerLoop
<1>3. PICK v \in Area : v = pc[e][2] /\ v \in Va /\ v # "temp" /\ "temp" \in Va
  BY DEF TypeOK, Va, Area
<1>4. PICK c \in Env :
        /\ c = kid[e] /\ c # None /\ c # e /\ status[c] = "setup"
        /\ \A f \in Env : f # e => kid[f] # c
  BY <1>1, AtFork DEF Step, Forking, EagerLoop
<1>5. HasChild(e)
  BY <1>2, <1>4 DEF ChildOK
<1>6. pte[c][v] # None /\ pte[c][v].page \in Page /\ pte[c][v].mode = "W"
  BY <1>2, <1>3, <1>4, <1>5 DEF HasChild, Modes
<1>7. PcTo(e, "copy", v)
  BY <1>3, GotoPc DEF EagerWindow, Step
<1>8. PICK x \in Entries :
        x = Entry(pte[c][v].page, "W") /\ x # None /\ x.page = pte[c][v].page /\ x.mode = "W"
  BY <1>6, EntryType, SMTT(20)
<1>9. Sets(e, "temp", x) /\ KeepsContent
  BY <1>1, <1>3, <1>4, <1>6, <1>8, MapSets, SMTT(20)
<1>10. TypeOK' /\ KidsOK' /\ Modes' /\ FixOK' /\ AreasOK'
  <2>1. LoopStep(e, "copy", v, e, "temp", x)
    BY <1>1, <1>2, <1>7, <1>9 DEF LoopStep
  <2> QED BY <1>2, <1>3, <1>6, <1>8, <2>1, LoopKeeps
      DEF Step, Forking, CowLoop, EagerLoop, AfterLoop, Area
<1>11. HandlerOK'
  <2>1. \A f \in Env, b \in Area \cup {"xstack"} : pte'[f][b] = pte[f][b]
    BY <1>9 DEF Sets, Va, Area
  <2> QED BY <1>1, <1>2, <1>7, <2>1 DEF HandlerOK, PcTo, CowLoop, AfterLoop
<1>12. x = pte[c][v]
  <2>1. pte[c][v] \in Entries
    BY <1>3, <1>6 DEF TypeOK
  <2>2. pte[c][v] = [page |-> pte[c][v].page, mode |-> pte[c][v].mode]
    BY <2>1 DEF Entries
  <2> QED BY <1>6, <1>8, <2>2 DEF Entry
<1>13. ChildOK'
  <2> SUFFICES ASSUME NEW f \in Env, status[f] = "run", kid[f] # None
               PROVE  HasChild(f)'
    BY <1>1 DEF ChildOK
  <2>1. kid[f] \in Env /\ kid[f] # e
    BY <1>2 DEF TypeOK
  <2>2. \A b \in Va : pte'[kid[f]][b] = pte[kid[f]][b]
    BY <1>9, <2>1 DEF Sets
  <2>3. CASE f # e
    <3>1. pc'[f] = pc[f] /\ pte'[f]["temp"] = pte[f]["temp"]
      BY <1>3, <1>7, <1>9, <2>3 DEF PcTo, Sets
    <3> QED BY <1>1, <2>2, <3>1, ChildUntouched DEF ChildOK
  <2>4. CASE f = e
    <3>1. pte'[e]["temp"] = x
      BY <1>9 DEF Sets
    <3> QED BY <1>1, <1>2, <1>3, <1>4, <1>5, <1>7, <1>12, <2>2, <2>4, <3>1
        DEF HasChild, Given, PcTo, CowLoop, EagerLoop, AfterLoop, Va, Area
  <2> QED BY <2>3, <2>4
<1>14. Exclusive'
  <2>1. \A f, g \in Env, a, b \in Va : Handing(f, a, g, b) => Handing(f, a, g, b)'
    BY <1>1, <1>2, <1>7 DEF Handing, PcTo
  <2>2. Handing(e, "temp", c, v)'
    BY <1>1, <1>4, <1>7 DEF Handing, PcTo
  <2>3. ASSUME NEW f \in Env, NEW b \in Va, f # e \/ b # "temp",
               pte[f][b] # None, pte[f][b].page = x.page
        PROVE  f = c /\ b = v
    <3>1. SUFFICES ASSUME f # c \/ b # v PROVE FALSE
      OBVIOUS
    <3>2. Share(c, v, f, b)
      BY <1>6, <1>8, <2>3, <3>1 DEF Share
    <3>3. Handing(c, v, f, b) \/ Handing(f, b, c, v)
      BY <1>3, <1>6, <3>2 DEF Exclusive
    <3>4. /\ fix[c] = None
          /\ pc[c][1] = "user" /\ pc[f][1] # "self"
      BY <1>2, <1>4 DEF KidsOK, Modes, CowLoop
    <3> QED BY <1>2, <1>3, <1>4, <2>3, <3>3, <3>4 DEF Handing
  <2> QED BY <1>3, <1>9, <2>1, <2>2, <2>3, ExclusiveKept
<1> QED BY <1>10, <1>11, <1>13, <1>14

\* ... and takes it out again.
LEMMA EagerCloseKeeps ==
  ASSUME IInv, NEW e \in Env, EagerClose(e)
  PROVE  IInv'
<1> USE DEF IInv
<1>1. /\ At(e, "close") /\ PageUnmap(e, "temp") /\ Advance(e, "fresh", "start")
      /\ UNCHANGED <<status, eager, forkers, kid, perm, fix, upcall, seen>>
  BY DEF EagerClose
<1>2. /\ status[e] = "run" /\ fix[e] = None /\ pc[e][1] = "close" /\ eager
      /\ \A f \in Env : kid[f] # e
  BY <1>1, AtFork DEF Step, Modes, EagerLoop
<1>3. PICK v \in Area : v = pc[e][2] /\ "temp" \in Va /\ "temp" \notin Area
  BY DEF TypeOK, Va, Area
<1>4. kid[e] \in Env /\ kid[e] # None
  BY <1>1, AtFork DEF Step, Forking, EagerLoop
<1>5. PICK s \in {"fresh", "start"}, w \in Area :
        /\ PcTo(e, s, w)
        /\ s = "fresh" => v = "data" /\ w = "stack"
        /\ s = "start" => v = "stack"
  BY <1>1, <1>3, AdvancePc DEF Step, Area
<1>6. Sets(e, "temp", None) /\ KeepsContent
  BY <1>1, <1>3, UnmapSets
<1>7. TypeOK' /\ KidsOK' /\ Modes' /\ FixOK' /\ AreasOK'
  <2>1. LoopStep(e, s, w, e, "temp", None)
    BY <1>1, <1>2, <1>5, <1>6 DEF LoopStep
  <2> QED BY <1>2, <1>3, <1>5, <2>1, LoopKeeps
      DEF Step, Forking, CowLoop, EagerLoop, AfterLoop
<1>8. HandlerOK'
  BY <1>1, <1>2, <1>5, <1>6 DEF HandlerOK, Sets, PcTo, CowLoop, AfterLoop, Va, Area
<1>9. HasChild(e)
  BY <1>2, <1>4 DEF ChildOK
<1>10. ChildOK'
  <2> SUFFICES ASSUME NEW f \in Env, status[f] = "run", kid[f] # None
               PROVE  HasChild(f)'
    BY <1>1 DEF ChildOK
  <2>1. kid[f] \in Env /\ kid[f] # e
    BY <1>2 DEF TypeOK
  <2>2. \A b \in Va : pte'[kid[f]][b] = pte[kid[f]][b]
    BY <1>6, <2>1 DEF Sets
  <2>3. CASE f # e
    <3>1. pc'[f] = pc[f] /\ pte'[f]["temp"] = pte[f]["temp"]
      BY <1>3, <1>5, <1>6, <2>3 DEF PcTo, Sets
    <3> QED BY <1>1, <2>2, <3>1, ChildUntouched DEF ChildOK
  <2>4. CASE f = e
    BY <1>1, <1>2, <1>3, <1>5, <1>9, <2>2, <2>4
    DEF HasChild, Given, PcTo, CowLoop, EagerLoop, AfterLoop, Va, Area
  <2> QED BY <2>3, <2>4
<1>11. Exclusive'
  <2>1. \A f, g \in Env, a, b \in Va :
          (f # e \/ a # "temp") /\ Handing(f, a, g, b) => Handing(f, a, g, b)'
    BY <1>1, <1>2, <1>5 DEF Handing, PcTo
  <2> QED BY <1>3, <1>6, <2>1, ExclusiveKept
<1> QED BY <1>7, <1>8, <1>10, <1>11
-----------------------------------------------------------------------------
\* A program that exits has no child in its hands and nothing is left of its
\* page table.
LEMMA ExitKeeps ==
  ASSUME IInv, NEW e \in Env, Exit(e)
  PROVE  IInv'
<1> USE DEF IInv
<1>1. /\ status[e] = "run" /\ fix[e] = None /\ pc[e][1] = "user"
      /\ status' = [status EXCEPT ![e] = "free"]
      /\ Tables([pte EXCEPT ![e] = Empty], content)
      /\ upcall' = [upcall EXCEPT ![e] = FALSE]
      /\ UNCHANGED <<eager, forkers, pc, kid, perm, fix, seen>>
  BY DEF Exit
<1>2. /\ status'[e] = "free" /\ \A f \in Env : f # e => status'[f] = status[f]
      /\ \A f \in Env : f # e => upcall'[f] = upcall[f]
  BY <1>1 DEF TypeOK
<1>3. Empty \in [Va -> {None} \cup Entries] /\ \A b \in Va : Empty[b] = None
  BY DEF Empty
<1>4. /\ pte' \in [Env -> [Va -> {None} \cup Entries]]
      /\ pte'[e] = Empty /\ \A f \in Env : f # e => pte'[f] = pte[f]
  BY <1>1, <1>3 DEF Tables, TypeOK
<1>5. content' \in [Page \cup {0} -> Value]
  BY <1>1, CowForkAssumption DEF Tables, TypeOK
<1>6. TypeOK'
  BY <1>1, <1>4, <1>5 DEF TypeOK
<1>7. kid[e] = None /\ \A f \in Env : kid[f] # e
  BY <1>1, CowForkAssumption DEF KidsOK, Forking, CowLoop, EagerLoop, AfterLoop
<1>8. KidsOK'
  BY <1>1, <1>2, <1>4, <1>7 DEF KidsOK
<1>9. Modes' /\ FixOK'
  BY <1>1, <1>3, <1>4 DEF Modes, FixOK
<1>10. AreasOK' /\ HandlerOK'
  BY <1>1, <1>2, <1>4 DEF AreasOK, HandlerOK
<1>11. ChildOK'
  <2> SUFFICES ASSUME NEW f \in Env, status'[f] = "run", kid[f] # None
               PROVE  HasChild(f)'
    BY <1>1 DEF ChildOK
  <2>1. f # e /\ kid[f] \in Env /\ kid[f] # e /\ status[f] = "run"
    BY <1>2, <1>7 DEF TypeOK
  <2> QED BY <1>1, <1>2, <1>4, <2>1, ChildUntouched DEF ChildOK
<1>12. Exclusive'
  <2> SUFFICES ASSUME NEW f \in Env, NEW g \in Env, NEW a \in Va, NEW b \in Va,
                      Share(f, a, g, b)'
               PROVE  \/ pte'[f][a].mode = "C" /\ pte'[g][b].mode = "C"
                      \/ Handing(f, a, g, b)' \/ Handing(g, b, f, a)'
    BY DEF Exclusive
  <2>1. f # e /\ g # e
    BY <1>3, <1>4 DEF Share
  <2>2. Share(f, a, g, b)
    BY <1>4, <2>1 DEF Share
  <2>3. \/ pte[f][a].mode = "C" /\ pte[g][b].mode = "C"
        \/ Handing(f, a, g, b) \/ Handing(g, b, f, a)
    BY <2>2 DEF Exclusive
  <2>4. /\ Handing(f, a, g, b) => Handing(f, a, g, b)'
        /\ Handing(g, b, f, a) => Handing(g, b, f, a)'
    BY <1>1 DEF Handing
  <2> QED BY <1>4, <2>1, <2>3, <2>4
<1> QED BY <1>6, <1>8, <1>9, <1>10, <1>11, <1>12

\* At the start one program runs, with two pages of its own.
LEMMA InitIInv == Init => IInv
<1> SUFFICES ASSUME Init PROVE IInv
  OBVIOUS
<1> USE DEF Init
<1> DEFINE p == Min(Page)
           q == Min(Page \ {p})
<1>1. p \in Page /\ q \in Page /\ p # q
  <2>1. Page \subseteq Nat /\ Page # {}
    BY CowForkAssumption
  <2>2. p \in Page
    BY <2>1, MinMember
  <2>3. Page \ {p} \subseteq Nat /\ Page \ {p} # {}
    BY CowForkAssumption
  <2>4. q \in Page \ {p}
    BY <2>3, MinMember
  <2> QED BY <2>2, <2>4
<1> HIDE DEF p, q
<1>2. /\ status \in [Env -> {"free", "setup", "run", "panic", "nomem"}]
      /\ \A e \in Env : status[e] \in {"run", "free", "setup"} /\ (status[e] = "run" <=> e = First)
  OBVIOUS
<1>3. PICK x \in Entries, y \in Entries :
        /\ x = Entry(p, "W") /\ x # None /\ x.page = p /\ x.mode = "W"
        /\ y = Entry(q, "W") /\ y # None /\ y.page = q /\ y.mode = "W"
  BY <1>1, EntryType
<1>4. pte = [e \in Env |-> IF e = First THEN [Empty EXCEPT !["data"] = x, !["stack"] = y]
                           ELSE Empty]
  BY <1>3 DEF p, q
<1>5. /\ pte \in [Env -> [Va -> {None} \cup Entries]]
      /\ pte[First]["data"] = x /\ pte[First]["stack"] = y
      /\ \A e \in Env, va \in Va :
           ~(e = First /\ va \in {"data", "stack"}) => pte[e][va] = None
      /\ \A e \in Env : e # First => pte[e] = Empty
  <2> DEFINE t == [Empty EXCEPT !["data"] = x, !["stack"] = y]
  <2>1. /\ Empty \in [Va -> {None} \cup Entries]
        /\ \A va \in Va : Empty[va] = None
    BY DEF Empty
  <2>2. "data" \in Va /\ "stack" \in Va
    BY DEF Va, Area
  <2>3. /\ t \in [Va -> {None} \cup Entries] /\ t["data"] = x /\ t["stack"] = y
        /\ \A va \in Va \ {"data", "stack"} : t[va] = None
    BY <2>1, <2>2
  <2> HIDE DEF t
  <2>4. pte = [e \in Env |-> IF e = First THEN t ELSE Empty]
    BY <1>4 DEF t
  <2>5. First \in Env
    BY CowForkAssumption
  <2> QED BY <2>1, <2>3, <2>4, <2>5, ZenonT(30)
<1>6. /\ \A e \in Env : pc[e][1] = "user" /\ pc[e][2] = "data"
      /\ pc \in [Env -> Step \X Area]
  BY DEF Step, Area
<1>7. \A e \in Env : kid[e] = None /\ fix[e] = None /\ ~upcall[e]
  OBVIOUS
<1>8. TypeOK
  BY <1>2, <1>5, <1>6, CowForkAssumption DEF TypeOK
<1>9. KidsOK
  BY <1>2, <1>5, <1>6, <1>7 DEF KidsOK, Forking, CowLoop, EagerLoop, AfterLoop
<1>10. Modes
  BY <1>1, <1>3, <1>5, <1>6 DEF Modes, CowLoop, EagerLoop
<1>11. FixOK /\ AreasOK
  BY <1>2, <1>3, <1>5, <1>7, ZenonT(30) DEF FixOK, AreasOK, Area
<1>12. HandlerOK
  BY <1>2, <1>3, <1>5, <1>6 DEF HandlerOK, CowLoop, AfterLoop, Area, Va
<1>13. ChildOK
  BY <1>7 DEF ChildOK
<1>14. Exclusive
  BY <1>1, <1>3, <1>5 DEF Exclusive, Share
<1> QED BY <1>8, <1>9, <1>10, <1>11, <1>12, <1>13, <1>14 DEF IInv

\* Every step keeps the invariant.
LEMMA NextIInv == IInv /\ [Next]_forkVars => IInv'
<1> SUFFICES ASSUME IInv, [Next]_forkVars PROVE IInv'
  OBVIOUS
<1>1. CASE UNCHANGED forkVars
  BY <1>1, ContentKeeps DEF forkVars, IInv, TypeOK
<1>2. ASSUME NEW e \in Env, NEW va \in Area, Fault(e, va) PROVE IInv'
  BY <1>2, FaultKeeps
<1>3. ASSUME NEW e \in Env, NEW va \in Area, NEW v \in Value, Store(e, va, v) PROVE IInv'
  <2>1. content' \in [Page \cup {0} -> Value] /\ seen' \in [Env -> SUBSET Value]
    BY <1>3 DEF Store, IInv, TypeOK
  <2> QED BY <1>3, <2>1, ContentKeeps DEF Store
<1>4. ASSUME NEW e \in Env, PageFix(e) PROVE IInv'
  BY <1>4, FixCheckKeeps, FixAllocKeeps, FixCopyKeeps, FixUnmapKeeps, FixMapKeeps,
     FixClearKeeps DEF PageFix
<1>5. ASSUME NEW e \in Env, CowSteps(e) PROVE IInv'
  BY <1>5, ForkKeeps, SetHandlerKeeps, SetUpcallKeeps, DupPermKeeps, DupChildKeeps,
     DupSelfKeeps, ChildPageKeeps, KidUpcallKeeps DEF CowSteps
<1>6. ASSUME NEW e \in Env, EagerSteps(e) PROVE IInv'
  BY <1>6, ForkKeeps, ChildPageKeeps, EagerWindowKeeps, EagerCopyKeeps, EagerCloseKeeps
  DEF EagerSteps
<1>7. ASSUME NEW e \in Env, Exofork(e) \/ StartKid(e) \/ Exit(e) PROVE IInv'
  BY <1>7, ExoforkKeeps, StartKidKeeps, ExitKeeps
<1>8. ASSUME NEW e \in Env, NoMemory(e) PROVE IInv'
  BY <1>8, StopKeeps DEF NoMemory, Fixing, At
<1> QED BY <1>1, <1>2, <1>3, <1>4, <1>5, <1>6, <1>7, <1>8 DEF Next

\* The page tables are always in the state that the invariant describes.
LEMMA Inductive == Spec => []IInv
BY InitIInv, NextIInv, PTL DEF Spec

\* Every variable keeps its type.
THEOREM Typing == Spec => []TypeOK
<1>1. IInv => TypeOK
  BY DEF IInv
<1> QED BY <1>1, Inductive, PTL

\* A page to which a running program can store is mapped nowhere else but in
\* the child it is setting up, at every moment of every fork and page fault.
THEOREM StoresArePrivate == Spec => []WritableIsOwn
<1>1. IInv => WritableIsOwn
  <2> SUFFICES ASSUME IInv, NEW e \in Env, NEW f \in Env, NEW a \in Area, NEW b \in Va,
                      status[e] = "run", status[f] # "setup", <<e, a>> # <<f, b>>,
                      pte[e][a] # None, pte[f][b] # None, pte[e][a].page = pte[f][b].page,
                      ~(e = f /\ b = "temp" /\ fix[e] # None)
               PROVE  pte[e][a].mode # "W"
    BY DEF WritableIsOwn
  <2>1. a \in Va /\ a # "temp" /\ Share(e, a, f, b)
    BY DEF Va, Area, Share
  <2>2. ~Handing(e, a, f, b)
    BY <2>1, CowForkAssumption DEF Handing, IInv, KidsOK, Forking, CowLoop
  <2>3. ~Handing(f, b, e, a)
    BY <2>1, CowForkAssumption DEF Handing, IInv, KidsOK, Forking, CowLoop, EagerLoop
  <2> QED BY <2>1, <2>2, <2>3 DEF IInv, Exclusive
<1> QED BY <1>1, Inductive, PTL

\* No page fault of a program that forks is refused by pgfault or undeliverable.
THEOREM FaultsAreHandled == Spec => []NoBadFault
<1>1. Init => NoBadFault
  BY DEF Init, NoBadFault
<1>2. IInv /\ NoBadFault /\ [Next]_forkVars => NoBadFault'
  <2> SUFFICES ASSUME IInv, NoBadFault, [Next]_forkVars PROVE NoBadFault'
    OBVIOUS
  <2> USE DEF IInv, NoBadFault, TypeOK
  <2>1. ASSUME NEW e \in Env, NEW va \in Area, Fault(e, va) PROVE UNCHANGED status
    BY <2>1 DEF Fault, AreasOK, HandlerOK, Modes, Va
  <2>2. ASSUME NEW e \in Env, FixCheck(e) PROVE UNCHANGED status
    BY <2>2 DEF FixCheck, Fixing, FixOK
  <2>3. ASSUME NEW e \in Env, NoMemory(e) PROVE NoBadFault'
    BY <2>3 DEF NoMemory, Stop
  <2>4. ASSUME NEW e \in Env, Exofork(e) \/ StartKid(e) \/ Exit(e) PROVE NoBadFault'
    BY <2>4 DEF Exofork, StartKid, Exit
  <2>5. ASSUME NEW e \in Env, NEW va \in Area, NEW v \in Value, Store(e, va, v)
        PROVE  UNCHANGED status
    BY <2>5 DEF Store
  <2>6. ASSUME NEW e \in Env, PageFix(e) PROVE UNCHANGED status
    BY <2>2, <2>6 DEF PageFix, FixAlloc, FixCopy, FixUnmap, FixMap, FixClear
  <2>7. ASSUME NEW e \in Env, CowSteps(e) \/ EagerSteps(e) PROVE UNCHANGED status
    BY <2>7 DEF CowSteps, EagerSteps, Fork, SetHandler, SetUpcall, DupPerm, DupChild,
       DupSelf, KidStack, KidUpcall, DumbFork, EagerFresh, EagerWindow, EagerCopy, EagerClose
  <2>8. CASE UNCHANGED forkVars
    BY <2>8 DEF forkVars
  <2> QED BY <2>1, <2>3, <2>4, <2>5, <2>6, <2>7, <2>8 DEF Next
<1> QED BY <1>1, <1>2, Inductive, PTL DEF Spec
-----------------------------------------------------------------------------
(* What programs see of their memory *)

SeenSame(e) == \A a \in Area : Seen(e, a)' = Seen(e, a)

\* What a program sees is on a page it has mapped.
LEMMA SeenMapped ==
  ASSUME IInv, NEW e \in Env, status[e] = "run", NEW a \in Area
  PROVE  \E b \in Va : /\ pte[e][b] # None
                       /\ Seen(e, a) = content[pte[e][b].page]
                       /\ b = IF pte[e][a] = None THEN "temp" ELSE a
BY DEF IInv, AreasOK, FixOK, Seen, Va, Area

\* A program that the step does nothing to, nor to its child, nor to a page of
\* the two.
LEMMA EnvUntouched ==
  ASSUME IInv, NEW f \in Env, status[f] = "run",
         kid'[f] = kid[f], pc'[f] = pc[f], fix'[f] = fix[f], seen'[f] = seen[f],
         \A b \in Va : pte'[f][b] = pte[f][b],
         \A b \in Va : pte[f][b] # None => content'[pte[f][b].page] = content[pte[f][b].page],
         kid[f] # None => \A b \in Area :
           /\ pte'[kid[f]][b] = pte[kid[f]][b]
           /\ pte[kid[f]][b] # None =>
                content'[pte[kid[f]][b].page] = content[pte[kid[f]][b].page]
  PROVE  SeenSame(f) /\ (CopyOK(f) => CopyOK(f)')
<1>1. SeenSame(f)
  BY SeenMapped DEF SeenSame, Seen, Va
<1>2. ASSUME CopyOK(f), kid[f] # None
      PROVE  /\ Given(f, "data")' => content'[pte'[kid'[f]]["data"].page] = Seen(f, "data")'
             /\ Given(f, "stack")' => content'[pte'[kid'[f]]["stack"].page] \in seen'[f]
             /\ Seen(f, "stack")' \in seen'[f]
  <2>1. \A a \in Area : Given(f, a)' = Given(f, a)
    BY DEF Given
  <2>2. \A a \in Area : Given(f, a) => pte[kid[f]][a] # None
    BY <1>2 DEF IInv, ChildOK, HasChild
  <2> QED BY <1>1, <1>2, <2>1, <2>2 DEF CopyOK, SeenSame, Area
<1>3. fix[f] # None /\ fix[f].step = "unmap" =>
        /\ fix[f].va \in Va /\ "temp" \in Va
        /\ pte[f]["temp"] # None /\ pte[f][fix[f].va] # None
  BY DEF IInv, FixOK, TypeOK, Fix, Va
<1>4. CopyOK(f) => CopyOK(f)'
  BY <1>2, <1>3 DEF CopyOK
<1> QED BY <1>1, <1>4

\* A change of one entry of the program's table, or of its child's, is not
\* seen by the other programs.
LEMMA OthersKept ==
  ASSUME IInv, Copies, NEW e \in Env, status[e] = "run", UNCHANGED status,
         NEW to \in Env, to = e \/ (to = kid[e] /\ kid[e] # None), NEW dst \in Va, NEW x,
         Sets(to, dst, x), KeepsContent,
         \A f \in Env : f # e =>
           kid'[f] = kid[f] /\ pc'[f] = pc[f] /\ fix'[f] = fix[f] /\ seen'[f] = seen[f]
  PROVE  \A f \in Env : f # e =>
           IF status[f] = "run" THEN SeenSame(f) /\ CopyOK(f)' ELSE seen'[f] = {}
<1> SUFFICES ASSUME NEW f \in Env, f # e, status[f] = "run"
             PROVE  SeenSame(f) /\ CopyOK(f)'
  BY DEF Copies
<1>1. f # to /\ (kid[f] # None => kid[f] \in Env /\ kid[f] # to)
  BY DEF IInv, KidsOK, TypeOK
<1>2. \A b \in Va : pte'[f][b] = pte[f][b]
  BY <1>1 DEF Sets
<1>3. kid[f] # None => \A b \in Va : pte'[kid[f]][b] = pte[kid[f]][b]
  BY <1>1 DEF Sets
<1>4. \A b \in Va : pte[f][b] # None => content'[pte[f][b].page] = content[pte[f][b].page]
  BY <1>2 DEF KeepsContent
<1>5. kid[f] # None => \A b \in Area :
        pte[kid[f]][b] # None =>
          content'[pte[kid[f]][b].page] = content[pte[kid[f]][b].page]
  BY <1>1, <1>3 DEF KeepsContent, Va
<1> QED BY <1>2, <1>3, <1>4, <1>5, EnvUntouched DEF Copies, Va

\* A store to a page that is mapped writable leaves the other pages alone, and
\* those are the pages of everybody else.
LEMMA WriteElsewhere ==
  ASSUME IInv, NEW e \in Env, NEW a \in Va, pte[e][a] # None, pte[e][a].mode = "W",
         \A p \in Page \cup {0} : p # pte[e][a].page => content'[p] = content[p],
         NEW f \in Env, NEW b \in Va, f # e \/ b # a, pte[f][b] # None,
         ~Handing(e, a, f, b), ~Handing(f, b, e, a)
  PROVE  content'[pte[f][b].page] = content[pte[f][b].page]
<1>1. ~Share(e, a, f, b)
  BY DEF IInv, Exclusive
<1>2. pte[f][b].page # pte[e][a].page
  BY <1>1 DEF Share
<1>3. pte[f][b].page \in Page \cup {0}
  BY DEF IInv, Modes
<1> QED BY <1>2, <1>3 DEF IInv, TypeOK

\* The same for the other programs as a whole.
LEMMA OthersUnwritten ==
  ASSUME IInv, Copies, NEW e \in Env, status[e] = "run", UNCHANGED <<status, pte, kid>>,
         NEW a \in Va, pte[e][a] # None, pte[e][a].mode = "W",
         \A p \in Page \cup {0} : p # pte[e][a].page => content'[p] = content[p],
         \A f \in Env : f # e => pc'[f] = pc[f] /\ fix'[f] = fix[f] /\ seen'[f] = seen[f]
  PROVE  \A f \in Env : f # e =>
           IF status[f] = "run" THEN SeenSame(f) /\ CopyOK(f)' ELSE seen'[f] = {}
<1> SUFFICES ASSUME NEW f \in Env, f # e, status[f] = "run"
             PROVE  SeenSame(f) /\ CopyOK(f)'
  BY DEF Copies
<1>1. ASSUME NEW g \in Env, g # e, kid[e] # g \/ kid[e] = None, kid[g] # e,
             NEW b \in Va, pte[g][b] # None
      PROVE  content'[pte[g][b].page] = content[pte[g][b].page]
  <2>1. ~Handing(e, a, g, b) /\ ~Handing(g, b, e, a)
    BY <1>1, CowForkAssumption
    DEF Handing, IInv, KidsOK, Forking, CowLoop, EagerLoop
  <2> QED BY <1>1, <2>1, WriteElsewhere
<1>2. kid[f] # e /\ (kid[e] # f \/ kid[e] = None)
  BY CowForkAssumption DEF IInv, KidsOK
<1>3. kid[f] # None =>
        /\ kid[f] \in Env /\ kid[f] # e /\ kid[e] # kid[f]
        /\ kid[kid[f]] # e
  BY CowForkAssumption DEF IInv, KidsOK, TypeOK, Forking, CowLoop, EagerLoop, AfterLoop
<1>4. \A b \in Va : pte[f][b] # None => content'[pte[f][b].page] = content[pte[f][b].page]
  BY <1>1, <1>2
<1>5. kid[f] # None => \A b \in Area : pte[kid[f]][b] # None =>
        content'[pte[kid[f]][b].page] = content[pte[kid[f]][b].page]
  BY <1>1, <1>3 DEF Va
<1> QED BY <1>4, <1>5, EnvUntouched DEF Copies
-----------------------------------------------------------------------------
(* The steps that no program sees *)

Silent ==
  /\ UNCHANGED <<status, seen>> /\ Copies'
  /\ \A f \in Env : status[f] = "run" => SeenSame(f)

\* A step that changes neither page tables nor pages, and is not the one in
\* which pgfault goes from copying to unmapping.
LEMMA Quiet ==
  ASSUME IInv, Copies, UNCHANGED <<status, pte, content, kid, seen>>,
         \A f \in Env : kid[f] # None => \A a \in Area : Given(f, a)' => Given(f, a),
         \A f \in Env : fix'[f] = fix[f] \/ fix'[f] = None \/ fix'[f].step # "unmap"
  PROVE  Silent
<1>1. \A f \in Env : SeenSame(f)
  BY DEF SeenSame, Seen
<1>2. ASSUME NEW f \in Env, status[f] = "run" PROVE CopyOK(f)'
  BY <1>1, <1>2 DEF Copies, CopyOK, SeenSame, Area
<1> QED BY <1>1, <1>2 DEF Silent, Copies

\* One entry of the program's own table changes, and the program sees the same.
LEMMA OwnTable ==
  ASSUME IInv, Copies, NEW e \in Env, status[e] = "run", UNCHANGED <<status, kid, seen>>,
         NEW dst \in Va, NEW x, Sets(e, dst, x), KeepsContent, SeenSame(e),
         \A f \in Env : f # e => pc'[f] = pc[f] /\ fix'[f] = fix[f],
         kid[e] # None => \A a \in Area : Given(e, a)' => Given(e, a),
         fix'[e] = None \/ fix'[e].step # "unmap"
  PROVE  Silent
<1>1. ASSUME kid[e] # None, NEW a \in Area, Given(e, a)
      PROVE  content'[pte'[kid[e]][a].page] = content[pte[kid[e]][a].page]
  <2>1. kid[e] \in Env /\ kid[e] # e /\ a \in Va
    BY <1>1 DEF IInv, KidsOK, TypeOK, Va
  <2>2. pte[kid[e]][a] # None /\ pte'[kid[e]][a] = pte[kid[e]][a]
    BY <1>1, <2>1 DEF IInv, ChildOK, HasChild, Sets
  <2> QED BY <2>1, <2>2 DEF KeepsContent
<1>2. CopyOK(e)'
  BY <1>1 DEF Copies, CopyOK, SeenSame, Area
<1>3. \A f \in Env : f # e =>
        IF status[f] = "run" THEN SeenSame(f) /\ CopyOK(f)' ELSE seen'[f] = {}
  BY OthersKept
<1> QED BY <1>2, <1>3 DEF Silent, Copies

\* One entry of the child's table changes.
LEMMA KidTable ==
  ASSUME IInv, Copies, NEW e \in Env, status[e] = "run", UNCHANGED <<status, kid, fix, seen>>,
         kid[e] # None, fix[e] = None,
         NEW dst \in Va, NEW x, Sets(kid[e], dst, x), KeepsContent,
         \A f \in Env : f # e => pc'[f] = pc[f],
         \A a \in Area : Given(e, a)' /\ a # dst => Given(e, a),
         dst \in Area /\ Given(e, dst)' => x # None /\ x.page = pte[e][dst].page
  PROVE  Silent
<1>1. kid[e] \in Env /\ kid[e] # e
  BY DEF IInv, KidsOK, TypeOK
<1>2. \A b \in Va : pte'[e][b] = pte[e][b]
  BY <1>1 DEF Sets
<1>3. \A a \in Area : a \in Va /\ pte[e][a] # None
  BY DEF IInv, AreasOK, Va
<1>4. SeenSame(e)
  BY <1>2, <1>3 DEF SeenSame, Seen, KeepsContent
<1>5. ASSUME NEW a \in Area, a # dst, Given(e, a)
      PROVE  content'[pte'[kid[e]][a].page] = content[pte[kid[e]][a].page]
  <2>1. pte[kid[e]][a] # None /\ pte'[kid[e]][a] = pte[kid[e]][a]
    BY <1>1, <1>3, <1>5 DEF IInv, ChildOK, HasChild, Sets
  <2> QED BY <1>1, <1>3, <2>1 DEF KeepsContent
<1>6. ASSUME dst \in Area, Given(e, dst)'
      PROVE  content'[pte'[kid[e]][dst].page] = Seen(e, dst)
  BY <1>1, <1>2, <1>3, <1>6 DEF Sets, KeepsContent, Seen
<1>7. CopyOK(e)'
  BY <1>4, <1>5, <1>6 DEF Copies, CopyOK, SeenSame, Area
<1>8. \A f \in Env : f # e =>
        IF status[f] = "run" THEN SeenSame(f) /\ CopyOK(f)' ELSE seen'[f] = {}
  BY <1>1, OthersKept
<1> QED BY <1>4, <1>7, <1>8 DEF Silent, Copies
LEMMA QuietSteps ==
  ASSUME IInv, Copies, NEW e \in Env,
         \/ FixCheck(e) \/ Fork(e) \/ SetUpcall(e) \/ DupPerm(e) \/ KidUpcall(e) \/ DumbFork(e)
         \/ \E va \in Area : Fault(e, va)
  PROVE  Silent
<1> USE DEF IInv
<1>1. ASSUME NEW va \in Area, Fault(e, va) PROVE Silent
  <2>1. /\ upcall[e] /\ pte[e]["xstack"] # None
        /\ pte[e][va] # None /\ pte[e][va].mode = "C"
    BY <1>1 DEF Fault, AreasOK, Modes, HandlerOK, TypeOK, Entries, Va, Area
  <2>2. /\ fix' = [fix EXCEPT ![e] = [va |-> va, step |-> "check"]]
        /\ UNCHANGED <<status, eager, forkers, pte, content, pc, kid, perm, upcall, seen>>
    BY <1>1, <2>1 DEF Fault
  <2> QED BY <2>2, Quiet DEF Given, TypeOK
<1>2. ASSUME FixCheck(e) PROVE Silent
  <2>1. /\ fix[e] # None /\ pte[e][fix[e].va] # None /\ pte[e][fix[e].va].mode = "C"
    BY <1>2 DEF FixCheck, Fixing, FixOK
  <2>2. /\ Then(e, "alloc")
        /\ UNCHANGED <<status, eager, forkers, pte, content, pc, kid, perm, upcall, seen>>
    BY <1>2, <2>1 DEF FixCheck
  <2> QED BY <2>1, <2>2, ThenFix, Quiet DEF Given, FixTo
<1>3. ASSUME Fork(e) \/ SetUpcall(e) \/ DumbFork(e) PROVE Silent
  <2>1. kid[e] = None
    BY <1>3 DEF Fork, SetUpcall, DumbFork, At, KidsOK, Forking, CowLoop, EagerLoop, AfterLoop
  <2>2. /\ UNCHANGED <<status, pte, content, kid, fix, seen>>
        /\ \A f \in Env : f # e => pc'[f] = pc[f]
    BY <1>3 DEF Fork, SetUpcall, DumbFork, Goto, TypeOK
  <2> QED BY <2>1, <2>2, Quiet DEF Given
<1>4. ASSUME DupPerm(e) \/ KidUpcall(e) PROVE Silent
  <2>1. PICK s \in {"child", "start"} :
          /\ PcTo(e, s, pc[e][2])
          /\ s = "child" => pc[e][1] = "perm"
          /\ s = "start" => pc[e][1] = "kidcall"
    BY <1>4, GotoPc DEF DupPerm, KidUpcall, At, Step
  <2>2. UNCHANGED <<status, pte, content, kid, fix, seen>>
    BY <1>4 DEF DupPerm, KidUpcall
  <2> QED BY <2>1, <2>2, Quiet DEF Given, PcTo, CowLoop, EagerLoop, AfterLoop
<1> QED BY <1>1, <1>2, <1>3, <1>4

LEMMA FixSilent ==
  ASSUME IInv, Copies, NEW e \in Env, FixAlloc(e) \/ FixUnmap(e) \/ FixMap(e) \/ FixClear(e)
  PROVE  Silent
<1> USE DEF IInv
<1>1. status[e] = "run" /\ fix[e] # None /\ fix[e].va \in Area /\ CopyOK(e)
  BY DEF FixAlloc, FixUnmap, FixMap, FixClear, Fixing, TypeOK, Fix, Copies
<1>2. PICK va \in Area : va = fix[e].va /\ va \in Va /\ va # "temp" /\ "temp" \in Va
  BY <1>1 DEF Va, Area
<1>3. \A a \in Area : a \in Va /\ a # "temp"
  BY DEF Va, Area
<1>4. /\ UNCHANGED <<status, eager, pc, kid, seen>>
      /\ \A a \in Area : Given(e, a)' => Given(e, a)
  BY DEF FixAlloc, FixUnmap, FixMap, FixClear, Given
<1>5. CASE FixAlloc(e)
  <2>1. fix[e].step = "alloc" /\ PageAlloc(e, "temp") /\ Then(e, "copy")
    BY <1>5 DEF FixAlloc, Fixing
  <2>2. FixTo(e, "copy")
    BY <1>1, <2>1, ThenFix
  <2>3. PICK x : Sets(e, "temp", x) /\ KeepsContent
    BY <1>2, <2>1, AllocSets
  <2>4. \A a \in Area : pte[e][a] # None /\ pte'[e][a] = pte[e][a]
    BY <1>1, <1>3, <2>1, <2>3 DEF AreasOK, Sets
  <2>5. SeenSame(e)
    BY <1>3, <2>3, <2>4 DEF SeenSame, Seen, KeepsContent
  <2> QED BY <1>1, <1>2, <1>4, <2>2, <2>3, <2>5, OwnTable DEF FixTo
<1>6. CASE FixUnmap(e)
  <2>1. fix[e].step = "unmap" /\ PageUnmap(e, va) /\ Then(e, "map")
    BY <1>2, <1>6 DEF FixUnmap, Fixing
  <2>2. FixTo(e, "map")
    BY <1>1, <2>1, ThenFix
  <2>3. Sets(e, va, None) /\ KeepsContent
    BY <1>2, <2>1, UnmapSets
  <2>4. /\ pte[e]["temp"] # None /\ pte[e][va] # None
        /\ content[pte[e]["temp"].page] = content[pte[e][va].page]
    BY <1>1, <1>2, <2>1 DEF FixOK, CopyOK
  <2>5. /\ pte'[e][va] = None /\ pte'[e]["temp"] = pte[e]["temp"]
        /\ \A a \in Area : a # va => pte[e][a] # None /\ pte'[e][a] = pte[e][a]
    BY <1>1, <1>2, <1>3, <2>1, <2>3 DEF AreasOK, Sets
  <2>6. SeenSame(e)
    BY <1>2, <1>3, <2>3, <2>4, <2>5 DEF SeenSame, Seen, KeepsContent
  <2> QED BY <1>1, <1>2, <1>4, <2>2, <2>3, <2>6, OwnTable DEF FixTo
<1>7. CASE FixMap(e)
  <2>1. fix[e].step = "map" /\ PageMap(e, "temp", e, va, "W") /\ Then(e, "clear")
    BY <1>2, <1>7 DEF FixMap, Fixing
  <2>2. FixTo(e, "clear")
    BY <1>1, <2>1, ThenFix
  <2>3. /\ pte[e]["temp"] # None /\ pte[e]["temp"].page \in Page /\ pte[e][va] = None
    BY <1>1, <1>2, <2>1 DEF FixOK, Modes
  <2>4. PICK x : x # None /\ x.page = pte[e]["temp"].page /\ Sets(e, va, x) /\ KeepsContent
    BY <1>2, <2>1, <2>3, MapSets, EntryType
  <2>5. /\ pte'[e][va] = x
        /\ \A a \in Area : a # va => pte[e][a] # None /\ pte'[e][a] = pte[e][a]
    BY <1>1, <1>2, <1>3, <2>1, <2>4 DEF AreasOK, Sets
  <2>6. SeenSame(e)
    BY <1>2, <1>3, <2>3, <2>4, <2>5 DEF SeenSame, Seen, KeepsContent
  <2> QED BY <1>1, <1>2, <1>4, <2>2, <2>4, <2>6, OwnTable DEF FixTo
<1>8. CASE FixClear(e)
  <2>1. /\ fix[e].step = "clear" /\ PageUnmap(e, "temp")
        /\ fix'[e] = None /\ \A f \in Env : f # e => fix'[f] = fix[f]
    BY <1>8 DEF FixClear, Fixing, TypeOK
  <2>2. Sets(e, "temp", None) /\ KeepsContent
    BY <1>2, <2>1, UnmapSets
  <2>3. \A a \in Area : pte[e][a] # None /\ pte'[e][a] = pte[e][a]
    BY <1>1, <1>3, <2>1, <2>2 DEF AreasOK, Sets
  <2>4. SeenSame(e)
    BY <1>3, <2>2, <2>3 DEF SeenSame, Seen, KeepsContent
  <2> QED BY <1>1, <1>2, <1>4, <2>1, <2>2, <2>4, OwnTable
<1> QED BY <1>5, <1>6, <1>7, <1>8

LEMMA LoopSilent ==
  ASSUME IInv, Copies, NEW e \in Env,
         SetHandler(e) \/ DupSelf(e) \/ EagerWindow(e) \/ EagerClose(e)
  PROVE  Silent
<1> USE DEF IInv
<1>1. PICK s \in {"handler", "self", "window", "close"} : At(e, s)
  BY DEF SetHandler, DupSelf, EagerWindow, EagerClose
<1>2. /\ status[e] = "run" /\ fix[e] = None /\ pc[e][1] = s
      /\ pc[e][2] \in Area /\ pc[e][2] \in Va
      /\ pte[e][pc[e][2]] # None /\ pte[e][pc[e][2]].page \in Page
  BY <1>1, AtFork DEF Step
<1>3. \A a \in Area : a \in Va /\ a # "temp" /\ a # "xstack" /\ pte[e][a] # None
  BY <1>2 DEF Va, Area, AreasOK
<1>4. UNCHANGED <<status, kid, fix, seen>>
  BY DEF SetHandler, DupSelf, EagerWindow, EagerClose
<1>5. /\ \A f \in Env : f # e => pc'[f] = pc[f] /\ fix'[f] = fix[f]
      /\ kid[e] # None => \A a \in Area : Given(e, a)' => Given(e, a)
  <2>1. CASE SetHandler(e)
    <3>1. PcTo(e, "upcall", pc[e][2])
      BY <2>1, GotoPc DEF SetHandler, Step
    <3> QED BY <1>4, <3>1 DEF PcTo, Given, CowLoop, EagerLoop, AfterLoop
  <2>2. CASE DupSelf(e)
    <3>1. /\ pc[e][1] = "self"
          /\ \/ pc[e][2] = "data" /\ PcTo(e, "perm", "stack")
             \/ pc[e][2] = "stack" /\ PcTo(e, "xstack", "data")
      BY <2>2, AdvancePc DEF DupSelf, Step, At
    <3> QED BY <1>4, <3>1 DEF PcTo, Given, CowLoop, EagerLoop, AfterLoop, Area
  <2>3. CASE EagerWindow(e)
    <3>1. pc[e][1] = "window" /\ PcTo(e, "copy", pc[e][2])
      BY <2>3, GotoPc DEF EagerWindow, Step, At
    <3> QED BY <1>4, <3>1 DEF PcTo, Given, CowLoop, EagerLoop, AfterLoop
  <2>4. CASE EagerClose(e)
    <3>1. /\ pc[e][1] = "close"
          /\ \/ pc[e][2] = "data" /\ PcTo(e, "fresh", "stack")
             \/ pc[e][2] = "stack" /\ PcTo(e, "start", "data")
      BY <2>4, AdvancePc DEF EagerClose, Step, At
    <3> QED BY <1>4, <3>1 DEF PcTo, Given, CowLoop, EagerLoop, AfterLoop, Area
  <2> QED BY <2>1, <2>2, <2>3, <2>4
<1>6. PICK dst \in Va, x \in {None} \cup Entries :
        /\ Sets(e, dst, x) /\ KeepsContent
        /\ dst \in Area => x # None /\ x.page = pte[e][dst].page
  <2>1. CASE SetHandler(e)
    <3>1. "xstack" \in Va /\ "xstack" \notin Area
      BY DEF Va, Area
    <3>2. PICK p \in Page : Sets(e, "xstack", Entry(p, "W")) /\ KeepsContent
      BY <2>1, <3>1, AllocSets DEF SetHandler
    <3> QED BY <3>1, <3>2, EntryType
  <2>2. CASE DupSelf(e)
    <3>1. perm[e] = "C" /\ PageMap(e, pc[e][2], e, pc[e][2], perm[e])
      BY <2>2 DEF DupSelf, At, KidsOK
    <3> QED BY <1>2, <3>1, MapSets, EntryType
  <2>3. CASE EagerWindow(e)
    <3>1. /\ kid[e] \in Env /\ kid[e] # None /\ pc[e][1] = "window"
          /\ PageMap(kid[e], pc[e][2], e, "temp", "W")
      BY <2>3, AtFork DEF EagerWindow, Step, At, Forking, EagerLoop
    <3>2. pte[kid[e]][pc[e][2]] # None
      BY <1>2, <3>1 DEF ChildOK, HasChild
    <3>3. "temp" \in Va /\ "temp" \notin Area
      BY DEF Va, Area
    <3>4. /\ Sets(e, "temp", Entry(pte[kid[e]][pc[e][2]].page, "W")) /\ KeepsContent
          /\ pte[kid[e]][pc[e][2]].page \in Page
      BY <1>2, <3>1, <3>2, <3>3, MapSets DEF Modes
    <3> QED BY <3>3, <3>4, EntryType
  <2>4. CASE EagerClose(e)
    BY <1>3, <2>4, UnmapSets DEF EagerClose, Va
  <2> QED BY <2>1, <2>2, <2>3, <2>4
<1>7. SeenSame(e)
  <2>1. \A a \in Area : pte'[e][a] # None /\ pte'[e][a].page = pte[e][a].page
    BY <1>3, <1>6 DEF Sets
  <2>2. \A a \in Area : content'[pte'[e][a].page] = content[pte[e][a].page]
    BY <1>3, <1>6, <2>1 DEF KeepsContent
  <2> QED BY <1>3, <2>1, <2>2 DEF SeenSame, Seen
<1> QED BY <1>2, <1>4, <1>5, <1>6, <1>7, OwnTable

LEMMA KidSilent ==
  ASSUME IInv, Copies, NEW e \in Env, DupChild(e) \/ KidStack(e) \/ EagerFresh(e)
  PROVE  Silent
<1> USE DEF IInv
<1>1. PICK s \in {"child", "xstack", "fresh"} : At(e, s)
  BY DEF DupChild, KidStack, EagerFresh
<1>2. /\ status[e] = "run" /\ fix[e] = None /\ pc[e][1] = s
      /\ pc[e][2] \in Area /\ pc[e][2] \in Va
      /\ pte[e][pc[e][2]] # None /\ pte[e][pc[e][2]].page \in Page
      /\ kid[e] \in Env /\ kid[e] # None
  BY <1>1, AtFork DEF Step, Forking, CowLoop, EagerLoop, AfterLoop
<1>3. UNCHANGED <<status, kid, fix, seen>>
  BY DEF DupChild, KidStack, EagerFresh
<1>4. CASE DupChild(e)
  <2>1. pc[e][1] = "child" /\ PcTo(e, "self", pc[e][2])
    BY <1>4, GotoPc DEF DupChild, At, Step
  <2>2. perm[e] = "C" /\ PageMap(e, pc[e][2], kid[e], pc[e][2], perm[e])
    BY <1>4, <2>1 DEF DupChild, KidsOK
  <2>3. PICK x : /\ x # None /\ x.page = pte[e][pc[e][2]].page
                 /\ Sets(kid[e], pc[e][2], x) /\ KeepsContent
    BY <1>2, <2>2, MapSets, EntryType
  <2>4. \A a \in Area : Given(e, a)' /\ a # pc[e][2] => Given(e, a)
    BY <1>2, <2>1 DEF PcTo, Given, CowLoop, EagerLoop, AfterLoop
  <2> QED BY <1>2, <1>3, <2>1, <2>3, <2>4, KidTable DEF PcTo
<1>5. CASE KidStack(e)
  <2>1. pc[e][1] = "xstack" /\ PcTo(e, "kidcall", pc[e][2])
    BY <1>5, GotoPc DEF KidStack, At, Step
  <2>2. "xstack" \in Va /\ "xstack" \notin Area
    BY DEF Va, Area
  <2>3. PICK x : Sets(kid[e], "xstack", x) /\ KeepsContent
    BY <1>2, <1>5, <2>2, AllocSets DEF KidStack
  <2>4. \A a \in Area : Given(e, a)
    BY <2>1 DEF Given, AfterLoop
  <2> QED BY <1>2, <1>3, <2>1, <2>2, <2>3, <2>4, KidTable DEF PcTo
<1>6. CASE EagerFresh(e)
  <2>1. pc[e][1] = "fresh" /\ PcTo(e, "window", pc[e][2])
    BY <1>6, GotoPc DEF EagerFresh, At, Step
  <2>2. PICK x : Sets(kid[e], pc[e][2], x) /\ KeepsContent
    BY <1>2, <1>6, AllocSets DEF EagerFresh
  <2>3. \A a \in Area : Given(e, a)' => Given(e, a) /\ a # pc[e][2]
    BY <1>2, <2>1 DEF PcTo, Given, CowLoop, EagerLoop, AfterLoop
  <2> QED BY <1>2, <1>3, <2>1, <2>2, <2>3, KidTable DEF PcTo
<1> QED BY <1>4, <1>5, <1>6
\* pgfault and duppage of dumbfork fill a page that nobody sees yet.
LEMMA FixCopySilent ==
  ASSUME IInv, Copies, NEW e \in Env, FixCopy(e)
  PROVE  Silent
<1> USE DEF IInv
<1>1. /\ status[e] = "run" /\ fix[e] # None /\ fix[e].step = "copy" /\ ~eager
      /\ pte[e]["temp"] # None /\ fix[e].va \in Area /\ CopyOK(e)
      /\ pte[e][fix[e].va] # None
  BY DEF FixCopy, Fixing, FixOK, TypeOK, Fix, Copies
<1>2. PICK va \in Area : va = fix[e].va /\ va \in Va
  BY <1>1 DEF Va
<1>3. /\ "temp" \in Va /\ pte[e]["temp"].mode = "W" /\ pte[e]["temp"].page \in Page
      /\ \A a \in Area : a \in Va /\ a # "temp" /\ pte[e][a] # None
  BY <1>1 DEF Va, Area, Modes, AreasOK
<1>4. /\ FixTo(e, "unmap") /\ UNCHANGED <<status, pte, pc, kid, seen>>
      /\ content' = [content EXCEPT ![pte[e]["temp"].page] = content[pte[e][va].page]]
  BY <1>1, <1>2, ThenFix DEF FixCopy
<1>5. /\ content'[pte[e]["temp"].page] = content[pte[e][va].page]
      /\ \A p \in Page \cup {0} : p # pte[e]["temp"].page => content'[p] = content[p]
  BY <1>3, <1>4 DEF TypeOK
<1>6. \A a \in Area : content'[pte[e][a].page] = content[pte[e][a].page]
  <2>1. \A a \in Area : ~Handing(e, "temp", e, a) /\ ~Handing(e, a, e, "temp")
    BY <1>1, <1>3, CowForkAssumption DEF Handing, KidsOK, Forking, CowLoop, EagerLoop, Modes
  <2> QED BY <1>1, <1>3, <1>5, <2>1, WriteElsewhere
<1>7. SeenSame(e)
  BY <1>3, <1>4, <1>6 DEF SeenSame, Seen
<1>8. kid[e] # None => \A a \in Area : pte[kid[e]][a] # None =>
        content'[pte[kid[e]][a].page] = content[pte[kid[e]][a].page]
  <2> SUFFICES ASSUME kid[e] # None, NEW a \in Area, pte[kid[e]][a] # None
               PROVE  content'[pte[kid[e]][a].page] = content[pte[kid[e]][a].page]
    OBVIOUS
  <2>1. kid[e] \in Env /\ kid[e] # e /\ fix[kid[e]] = None /\ pc[kid[e]][1] = "user"
    BY <1>1 DEF KidsOK, TypeOK
  <2>2. ~Handing(e, "temp", kid[e], a) /\ ~Handing(kid[e], a, e, "temp")
    BY <1>1, <1>3, <2>1 DEF Handing, Modes, EagerLoop, TypeOK
  <2> QED BY <1>1, <1>3, <1>5, <2>1, <2>2, WriteElsewhere
<1>9. CopyOK(e)'
  <2>1. fix'[e] # None /\ fix'[e].va = va /\ fix'[e].step = "unmap"
    BY <1>2, <1>4, SMTT(20) DEF FixTo
  <2>2. content'[pte'[e]["temp"].page] = content'[pte'[e][fix'[e].va].page]
    BY <1>2, <1>4, <1>5, <1>6, <2>1
  <2>3. \A a \in Area : (Given(e, a)' <=> Given(e, a)) /\ (kid[e] # None /\ Given(e, a) => pte[kid[e]][a] # None)
    BY <1>1, <1>4 DEF Given, ChildOK, HasChild
  <2> QED BY <1>1, <1>4, <1>7, <1>8, <2>2, <2>3 DEF CopyOK, SeenSame, Area
<1>10. \A f \in Env : f # e =>
         IF status[f] = "run" THEN SeenSame(f) /\ CopyOK(f)' ELSE seen'[f] = {}
  BY <1>1, <1>3, <1>4, <1>5, OthersUnwritten DEF FixTo
<1> QED BY <1>1, <1>4, <1>7, <1>9, <1>10 DEF Silent, Copies

LEMMA EagerCopySilent ==
  ASSUME IInv, Copies, NEW e \in Env, EagerCopy(e)
  PROVE  Silent
<1> USE DEF IInv
<1>1. /\ At(e, "copy") /\ status[e] = "run" /\ fix[e] = None /\ pc[e][1] = "copy"
      /\ kid[e] \in Env /\ kid[e] # None /\ kid[e] # e /\ CopyOK(e) /\ HasChild(e)
      /\ fix[kid[e]] = None /\ pc[kid[e]][1] = "user"
  BY AtFork DEF EagerCopy, Step, Forking, EagerLoop, Copies, ChildOK
<1>2. PICK v \in Area : v = pc[e][2]
  BY DEF TypeOK
<1>3. /\ "temp" \in Va /\ \A a \in Area : a \in Va /\ a # "temp" /\ pte[e][a] # None
  BY <1>1 DEF Va, Area, AreasOK
<1>4. /\ pte[kid[e]][v] # None /\ pte[e]["temp"] = pte[kid[e]][v]
      /\ pte[e]["temp"].mode = "W" /\ pte[e]["temp"].page \in Page
  BY <1>1, <1>2, <1>3 DEF HasChild, Modes, Area
<1>5. /\ PcTo(e, "close", v) /\ UNCHANGED <<status, pte, kid, fix, seen>>
      /\ content' = [content EXCEPT ![pte[e]["temp"].page] = content[pte[e][v].page]]
  BY <1>2, GotoPc DEF EagerCopy, Step
<1>6. /\ content'[pte[kid[e]][v].page] = content[pte[e][v].page]
      /\ \A p \in Page \cup {0} : p # pte[e]["temp"].page => content'[p] = content[p]
  BY <1>4, <1>5 DEF TypeOK
<1>7. SeenSame(e)
  <2>1. \A a \in Area : ~Handing(e, "temp", e, a) /\ ~Handing(e, a, e, "temp")
    BY <1>1, <1>3 DEF Handing
  <2>2. \A a \in Area : content'[pte[e][a].page] = content[pte[e][a].page]
    BY <1>3, <1>4, <1>6, <2>1, WriteElsewhere
  <2> QED BY <1>3, <1>5, <2>2 DEF SeenSame, Seen
<1>8. ASSUME NEW a \in Area, a # v, pte[kid[e]][a] # None
      PROVE  content'[pte[kid[e]][a].page] = content[pte[kid[e]][a].page]
  <2>1. ~Handing(e, "temp", kid[e], a) /\ ~Handing(kid[e], a, e, "temp")
    BY <1>1, <1>2, <1>8 DEF Handing
  <2> QED BY <1>1, <1>3, <1>4, <1>6, <1>8, <2>1, WriteElsewhere
<1>9. CopyOK(e)'
  <2>1. \A a \in Area : a # v /\ Given(e, a)' => Given(e, a) /\ pte[kid[e]][a] # None
    BY <1>1, <1>2, <1>5 DEF Given, HasChild, PcTo, CowLoop, EagerLoop, AfterLoop
  <2>2. content'[pte'[kid[e]][v].page] = Seen(e, v)
    BY <1>3, <1>5, <1>6 DEF Seen
  <2>3. \A a \in Area : a # v /\ Given(e, a)' =>
          Given(e, a) /\ content'[pte'[kid[e]][a].page] = content[pte[kid[e]][a].page]
    BY <1>5, <1>8, <2>1
  <2> QED BY <1>1, <1>5, <1>7, <2>2, <2>3 DEF CopyOK, SeenSame, Area
<1>10. \A f \in Env : f # e =>
         IF status[f] = "run" THEN SeenSame(f) /\ CopyOK(f)' ELSE seen'[f] = {}
  BY <1>1, <1>3, <1>4, <1>5, <1>6, OthersUnwritten, SMTT(20) DEF PcTo
<1> QED BY <1>1, <1>5, <1>7, <1>9, <1>10 DEF Silent, Copies

-----------------------------------------------------------------------------
(* The steps that programs see *)

\* Nobody else sees a store, and the child can have it only on its stack.
LEMMA StoreSeen ==
  ASSUME IInv, Copies, NEW e \in Env, NEW va \in Area, NEW v \in Value, Store(e, va, v)
  PROVE  /\ status[e] = "run" /\ UNCHANGED status /\ Copies'
         /\ Seen(e, va)' = v /\ \A a \in Area : a # va => Seen(e, a)' = Seen(e, a)
         /\ \A f \in Env : f # e /\ status[f] = "run" => SeenSame(f)
         /\ seen[e] # {} => va = "stack"
         /\ seen' = [seen EXCEPT ![e] = IF @ = {} THEN {} ELSE @ \cup {v}]
<1> USE DEF IInv
<1>1. /\ status[e] = "run" /\ fix[e] = None /\ CopyOK(e)
      /\ pte[e][va] # None /\ pte[e][va].mode = "W" /\ pte[e][va].page \in Page
      /\ \A a \in Area : a \in Va /\ a # "temp" /\ pte[e][a] # None
  BY DEF Store, Copies, AreasOK, Modes, Va, Area
<1>2. kid[e] # None => va = "stack"
  BY DEF Store, KidsOK, Forking, CowLoop, EagerLoop, AfterLoop
<1>3. /\ UNCHANGED <<status, pte, pc, kid, fix>>
      /\ content' = [content EXCEPT ![pte[e][va].page] = v]
      /\ seen' = [seen EXCEPT ![e] = IF @ = {} THEN {} ELSE @ \cup {v}]
  BY <1>1, <1>2 DEF Store, CopyOK
<1>4. /\ content'[pte[e][va].page] = v
      /\ \A p \in Page \cup {0} : p # pte[e][va].page => content'[p] = content[p]
  BY <1>1, <1>3 DEF TypeOK
<1>5. /\ seen'[e] = IF seen[e] = {} THEN {} ELSE seen[e] \cup {v}
      /\ \A f \in Env : f # e => seen'[f] = seen[f]
  BY <1>3 DEF TypeOK
<1>6. /\ Seen(e, va)' = v
      /\ \A a \in Area : a # va => Seen(e, a)' = Seen(e, a)
  <2>1. \A a \in Area : ~Handing(e, va, e, a) /\ ~Handing(e, a, e, va)
    BY <1>1, CowForkAssumption DEF Handing, KidsOK, Forking, CowLoop, EagerLoop
  <2>2. \A a \in Area : a # va => content'[pte[e][a].page] = content[pte[e][a].page]
    BY <1>1, <1>4, <2>1, WriteElsewhere
  <2> QED BY <1>1, <1>3, <1>4, <2>2 DEF Seen
<1>7. ASSUME kid[e] # None
      PROVE  /\ Given(e, "data")' => content'[pte'[kid[e]]["data"].page] = Seen(e, "data")'
             /\ Given(e, "stack")' => content'[pte'[kid[e]]["stack"].page] \in seen'[e]
  <2>1. /\ kid[e] \in Env /\ kid[e] # e /\ fix[kid[e]] = None /\ pc[kid[e]][1] = "user"
        /\ va = "stack" /\ seen[e] # {}
    BY <1>1, <1>2, <1>7 DEF KidsOK, TypeOK, CopyOK
  <2>2. "data" \in Area /\ "stack" \in Area
    BY DEF Area
  <2>3. \A a \in Area : /\ Given(e, a)' <=> Given(e, a)
                        /\ Given(e, a) => /\ pte[kid[e]][a] # None
                                          /\ pte[kid[e]][a].page \in Page
    BY <1>1, <1>3, <1>7, <2>1 DEF Given, ChildOK, HasChild, Modes
  <2>4. ASSUME Given(e, "data")
        PROVE  content'[pte'[kid[e]]["data"].page] = Seen(e, "data")'
    <3>1. ~Handing(e, va, kid[e], "data") /\ ~Handing(kid[e], "data", e, va)
      BY <1>1, <2>1 DEF Handing
    <3>2. content'[pte[kid[e]]["data"].page] = content[pte[kid[e]]["data"].page]
      BY <1>1, <1>4, <2>1, <2>2, <2>3, <2>4, <3>1, WriteElsewhere
    <3> QED BY <1>1, <1>3, <1>6, <1>7, <2>1, <2>2, <2>4, <3>2 DEF CopyOK
  <2>5. ASSUME Given(e, "stack")
        PROVE  content'[pte'[kid[e]]["stack"].page] \in seen'[e]
    <3>1. content[pte[kid[e]]["stack"].page] \in seen[e]
      BY <1>1, <1>7, <2>5 DEF CopyOK
    <3> QED BY <1>3, <1>4, <1>5, <2>1, <2>2, <2>3, <2>5, <3>1
  <2> QED BY <2>2, <2>3, <2>4, <2>5
<1>8. CopyOK(e)'
  BY <1>1, <1>2, <1>3, <1>5, <1>6, <1>7 DEF CopyOK
<1>9. \A f \in Env : f # e =>
        IF status[f] = "run" THEN SeenSame(f) /\ CopyOK(f)' ELSE seen'[f] = {}
  BY <1>1, <1>3, <1>4, <1>5, OthersUnwritten
<1> QED BY <1>1, <1>2, <1>3, <1>6, <1>8, <1>9 DEF Copies, CopyOK
\* The other programs when the page tables and the pages stay.
LEMMA OthersAlone ==
  ASSUME IInv, Copies, NEW e \in Env,
         \A f \in Env : f # e =>
           kid'[f] = kid[f] /\ pc'[f] = pc[f] /\ fix'[f] = fix[f] /\ seen'[f] = seen[f],
         UNCHANGED <<pte, content>>
  PROVE  \A f \in Env : f # e /\ status[f] = "run" => SeenSame(f) /\ CopyOK(f)'
BY EnvUntouched DEF Copies

LEMMA ExoforkSeen ==
  ASSUME IInv, Copies, NEW e \in Env, Exofork(e)
  PROVE  /\ status[e] = "run" /\ Running' = Running /\ Copies'
         /\ \A f \in Env : status[f] = "run" => SeenSame(f)
         /\ seen[e] = {} /\ seen' = [seen EXCEPT ![e] = {Seen(e, "stack")}]
<1> USE DEF IInv
<1>1. /\ status[e] = "run" /\ fix[e] = None /\ pc[e][1] = "exofork" /\ CopyOK(e)
      /\ kid[e] = None
  BY DEF Exofork, At, Copies, KidsOK, Forking, CowLoop, EagerLoop, AfterLoop
<1>2. seen[e] = {} /\ "stack" \in Area /\ pte[e]["stack"] # None
  BY <1>1 DEF CopyOK, Area, AreasOK
<1>3. seen' = [seen EXCEPT ![e] = {Seen(e, "stack")}]
  BY <1>2 DEF Exofork, Seen
<1>4. PICK c \in Env :
        /\ status[c] = "free" /\ status' = [status EXCEPT ![c] = "setup"]
        /\ kid' = [kid EXCEPT ![e] = c]
  BY DEF Exofork
<1>5. /\ UNCHANGED <<eager, forkers, pte, content, perm, fix, upcall>>
      /\ pc' = [pc EXCEPT ![e] = <<IF eager THEN "fresh" ELSE "perm", "data">>]
  BY DEF Exofork
<1>6. /\ kid'[e] = c /\ c # None /\ c # e
      /\ seen'[e] = {Seen(e, "stack")} /\ pc'[e][2] = "data"
      /\ pc'[e][1] \in {"fresh", "perm"}
      /\ status'[c] = "setup" /\ \A f \in Env : f # c => status'[f] = status[f]
      /\ \A f \in Env : f # e => kid'[f] = kid[f] /\ pc'[f] = pc[f] /\ seen'[f] = seen[f]
  BY <1>1, <1>3, <1>4, <1>5, CowForkAssumption DEF TypeOK
<1>7. \A a \in Area : ~Given(e, a)' /\ Seen(e, a)' = Seen(e, a)
  BY <1>5, <1>6 DEF Given, Seen, CowLoop, EagerLoop, AfterLoop
<1>8. SeenSame(e) /\ CopyOK(e)'
  BY <1>1, <1>2, <1>5, <1>6, <1>7 DEF SeenSame, CopyOK, Area
<1>9. \A f \in Env : f # e /\ status[f] = "run" => SeenSame(f) /\ CopyOK(f)'
  BY <1>5, <1>6, OthersAlone
<1>10. Running' = Running
  BY <1>4, <1>6 DEF Running
<1>11. Copies'
  BY <1>1, <1>4, <1>6, <1>8, <1>9 DEF Copies
<1> QED BY <1>1, <1>2, <1>3, <1>8, <1>9, <1>10, <1>11

LEMMA StartKidSeen ==
  ASSUME IInv, Copies, NEW e \in Env, StartKid(e)
  PROVE  /\ status[e] = "run" /\ seen[e] # {} /\ Copies'
         /\ \A f \in Env : status[f] = "run" => SeenSame(f)
         /\ seen' = [seen EXCEPT ![e] = {}]
         /\ \E c \in Env : /\ status[c] # "run" /\ status' = [status EXCEPT ![c] = "run"]
                           /\ Seen(c, "data")' = Seen(e, "data")
                           /\ Seen(c, "stack")' \in seen[e]
<1> USE DEF IInv
<1>1. /\ At(e, "start") /\ status[e] = "run" /\ fix[e] = None /\ pc[e][1] = "start"
      /\ CopyOK(e) /\ HasChild(e)
  BY AtFork DEF StartKid, Step, Forking, AfterLoop, Copies, ChildOK
<1>2. PICK c \in Env :
        /\ c = kid[e] /\ c # None /\ c # e /\ status[c] = "setup"
        /\ fix[c] = None /\ pc[c][1] = "user"
  BY <1>1, AtFork DEF Step, Forking, AfterLoop
<1>3. /\ status' = [status EXCEPT ![c] = "run"] /\ seen' = [seen EXCEPT ![e] = {}]
      /\ UNCHANGED <<pte, content, fix>> /\ Goto(e, "user")
      /\ kid' = [kid EXCEPT ![e] = None]
  BY <1>2 DEF StartKid
<1>4. /\ PcTo(e, "user", pc[e][2])
      /\ status'[c] = "run" /\ \A f \in Env : f # c => status'[f] = status[f]
      /\ kid'[e] = None /\ seen'[e] = {}
      /\ \A f \in Env : f # e => kid'[f] = kid[f] /\ pc'[f] = pc[f] /\ seen'[f] = seen[f]
  BY <1>3, GotoPc DEF Step, TypeOK, PcTo
<1>5. \A a \in Area : Given(e, a) /\ pte[c][a] # None
  BY <1>1, <1>2 DEF Given, HasChild, AfterLoop
<1>6. Seen(c, "data")' = Seen(e, "data") /\ Seen(c, "stack")' \in seen[e]
  <2>1. "data" \in Area /\ "stack" \in Area
    BY DEF Area
  <2>2. /\ content[pte[c]["data"].page] = Seen(e, "data")
        /\ content[pte[c]["stack"].page] \in seen[e]
    BY <1>1, <1>2, <1>5, <2>1 DEF CopyOK
  <2>3. /\ Seen(c, "data")' = content[pte[c]["data"].page]
        /\ Seen(c, "stack")' = content[pte[c]["stack"].page]
    BY <1>3, <1>5, <2>1 DEF Seen
  <2> QED BY <2>2, <2>3
<1>7. SeenSame(e) /\ CopyOK(e)'
  BY <1>1, <1>3, <1>4 DEF SeenSame, Seen, CopyOK
<1>8. \A f \in Env : f # e /\ status[f] = "run" => SeenSame(f) /\ CopyOK(f)'
  BY <1>3, <1>4, OthersAlone
<1>9. CopyOK(c)'
  <2>1. kid[c] = None /\ seen[c] = {}
    BY <1>2 DEF KidsOK, Copies, Forking, CowLoop, EagerLoop, AfterLoop
  <2> QED BY <1>2, <1>3, <1>4, <2>1 DEF CopyOK
<1>10. Copies'
  BY <1>1, <1>2, <1>4, <1>7, <1>8, <1>9 DEF Copies
<1>11. seen[e] # {} /\ status[c] # "run"
  BY <1>1, <1>2 DEF CopyOK
<1> QED BY <1>1, <1>3, <1>6, <1>7, <1>8, <1>10, <1>11

\* A program that exits, or that stops the kernel for want of memory.
LEMMA EndSeen ==
  ASSUME IInv, Copies, NEW e \in Env, Exit(e) \/ NoMemory(e)
  PROVE  /\ status[e] = "run" /\ Copies' /\ Running' = Running \ {e}
         /\ \A f \in Env : f # e /\ status[f] = "run" => SeenSame(f)
         /\ seen' = [seen EXCEPT ![e] = {}]
<1> USE DEF IInv
<1>1. status[e] = "run" /\ CopyOK(e)
  BY DEF Exit, NoMemory, Fixing, At, Copies
<1>2. CASE Exit(e)
  <2>1. /\ kid[e] = None /\ seen[e] = {}
    BY <1>1, <1>2 DEF Exit, KidsOK, CopyOK, Forking, CowLoop, EagerLoop, AfterLoop
  <2>2. /\ status' = [status EXCEPT ![e] = "free"]
        /\ Tables([pte EXCEPT ![e] = Empty], content)
        /\ UNCHANGED <<pc, kid, fix, seen>>
    BY <1>2 DEF Exit
  <2>3. /\ status'[e] = "free" /\ \A f \in Env : f # e => status'[f] = status[f]
        /\ seen' = [seen EXCEPT ![e] = {}]
    BY <2>1, <2>2 DEF TypeOK
  <2>4. \A f \in Env : f # e => pte'[f] = pte[f]
    BY <2>2 DEF Tables, TypeOK
  <2>5. ASSUME NEW f \in Env, f # e, NEW b \in Va, pte[f][b] # None
        PROVE  content'[pte[f][b].page] = content[pte[f][b].page]
    <3>1. pte[f][b].page \in Page \cup {0} /\ pte[f][b].page \in Mapped(pte')
      BY <2>4, <2>5 DEF Modes, Mapped
    <3>2. content' = [p \in Page \cup {0} |-> IF p \in Mapped(pte') THEN content[p] ELSE 0]
      BY <2>2 DEF Tables
    <3> QED BY <3>1, <3>2
  <2>6. \A f \in Env : f # e /\ status[f] = "run" => SeenSame(f) /\ CopyOK(f)'
    <3> SUFFICES ASSUME NEW f \in Env, f # e, status[f] = "run"
                 PROVE  SeenSame(f) /\ CopyOK(f)'
      OBVIOUS
    <3>1. kid[f] # None => kid[f] \in Env /\ kid[f] # e
      BY <1>1 DEF KidsOK, TypeOK
    <3>2. kid[f] # None => \A b \in Area :
            /\ pte'[kid[f]][b] = pte[kid[f]][b]
            /\ pte[kid[f]][b] # None =>
                 content'[pte[kid[f]][b].page] = content[pte[kid[f]][b].page]
      BY <2>4, <2>5, <3>1 DEF Va
    <3> QED BY <2>2, <2>4, <2>5, <3>2, EnvUntouched DEF Copies
  <2>7. Copies'
    BY <2>1, <2>2, <2>3, <2>6 DEF Copies
  <2>8. Running' = Running \ {e}
    BY <2>3 DEF Running
  <2> QED BY <1>1, <2>3, <2>6, <2>7, <2>8
<1>3. CASE NoMemory(e)
  <2>1. /\ status' = [status EXCEPT ![e] = "nomem"] /\ seen' = [seen EXCEPT ![e] = {}]
        /\ UNCHANGED <<pte, content, pc, kid, fix>>
    BY <1>3 DEF NoMemory, Stop
  <2>2. /\ status'[e] = "nomem" /\ \A f \in Env : f # e => status'[f] = status[f]
        /\ seen'[e] = {} /\ \A f \in Env : f # e => seen'[f] = seen[f]
    BY <2>1 DEF TypeOK
  <2>3. \A f \in Env : f # e /\ status[f] = "run" => SeenSame(f) /\ CopyOK(f)'
    BY <2>1, <2>2, OthersAlone
  <2>4. Copies'
    BY <2>2, <2>3 DEF Copies
  <2>5. Running' = Running \ {e}
    BY <2>2 DEF Running
  <2> QED BY <1>1, <2>1, <2>3, <2>4, <2>5
<1> QED BY <1>2, <1>3
-----------------------------------------------------------------------------
(* Every step is one of PrivateMemory, or changes nothing there *)

LEMMA MemoryOf ==
  ASSUME NEW e \in Env
  PROVE  /\ Memory[e] = IF status[e] = "run" THEN [a \in Area |-> Seen(e, a)] ELSE None
         /\ (Memory')[e] = IF status'[e] = "run" THEN [a \in Area |-> Seen(e, a)'] ELSE None
         /\ e \in Running <=> status[e] = "run"
BY DEF Memory, Running

LEMMA SilentStutters ==
  ASSUME Silent
  PROVE  UNCHANGED <<Running, Memory, seen>>
<1>1. Running' = Running
  BY DEF Silent, Running
<1>2. \A e \in Env : e \in Running =>
        [a \in Area |-> Seen(e, a)'] = [a \in Area |-> Seen(e, a)]
  BY DEF Silent, SeenSame, Running
<1>3. Memory' = Memory
  BY <1>1, <1>2 DEF Memory
<1> QED BY <1>1, <1>3 DEF Silent

LEMMA InitMaps == Init => Copies /\ Abstract!Init
<1> SUFFICES ASSUME Init PROVE Copies /\ Abstract!Init
  OBVIOUS
<1>1. TypeOK /\ IInv
  BY InitIInv DEF IInv
<1>2. \A e \in Env : kid[e] = None /\ fix[e] = None /\ seen[e] = {}
  BY DEF Init
<1>3. Copies
  BY <1>2 DEF Copies, CopyOK
<1>4. First \in Env /\ status[First] = "run" /\ \A e \in Env : status[e] = "run" => e = First
  BY CowForkAssumption DEF Init
<1>5. \A a \in Area : Seen(First, a) = 0
  <2>1. ASSUME NEW a \in Area PROVE Seen(First, a) = 0
    <3>1. PICK b \in Va : pte[First][b] # None /\ Seen(First, a) = content[pte[First][b].page]
      BY <1>1, <1>4, SeenMapped
    <3>2. pte[First][b].page \in Page \cup {0}
      BY <1>1, <1>4, <3>1 DEF IInv, Modes
    <3>3. \A p \in Page \cup {0} : content[p] = 0
      BY DEF Init
    <3> QED BY <3>1, <3>2, <3>3
  <2> QED BY <2>1
<1>6. Running = {First}
  BY <1>4 DEF Running
<1>7. Memory = [e \in Env |-> IF e = First THEN [a \in Area |-> 0] ELSE None]
  BY <1>5, <1>6 DEF Memory
<1>8. seen = [e \in Env |-> {}]
  BY DEF Init
<1> QED BY <1>3, <1>6, <1>7, <1>8 DEF Abstract!Init, Abstract!Area, Area

\* A store changes what its program sees there, and nothing else anywhere.
LEMMA StoreWrites ==
  ASSUME IInv, Copies, NEW e \in Env, NEW va \in Area, NEW v \in Value, Store(e, va, v)
  PROVE  Abstract!Write(e, va, v)
<1>1. /\ status[e] = "run" /\ UNCHANGED status
      /\ Seen(e, va)' = v /\ \A a \in Area : a # va => Seen(e, a)' = Seen(e, a)
      /\ \A f \in Env : f # e /\ status[f] = "run" => SeenSame(f)
      /\ seen[e] # {} => va = "stack"
      /\ seen' = [seen EXCEPT ![e] = IF @ = {} THEN {} ELSE @ \cup {v}]
  BY StoreSeen
<1>2. Running' = Running /\ e \in Running
  BY <1>1 DEF Running
<1>3. [a \in Area |-> Seen(e, a)'] = [[a \in Area |-> Seen(e, a)] EXCEPT ![va] = v]
  BY <1>1
<1>4. \A f \in Running : f # e => [a \in Area |-> Seen(f, a)'] = [a \in Area |-> Seen(f, a)]
  BY <1>1 DEF Running, SeenSame
<1>5. Memory' = [Memory EXCEPT ![e][va] = v]
  BY <1>2, <1>3, <1>4 DEF Memory
<1> QED BY <1>1, <1>2, <1>5 DEF Abstract!Write

LEMMA ExoforkBegins ==
  ASSUME IInv, Copies, NEW e \in Env, Exofork(e)
  PROVE  Abstract!Begin(e)
<1>1. /\ status[e] = "run" /\ Running' = Running
      /\ \A f \in Env : status[f] = "run" => SeenSame(f)
      /\ seen[e] = {} /\ seen' = [seen EXCEPT ![e] = {Seen(e, "stack")}]
  BY ExoforkSeen
<1>2. \A f \in Running : [a \in Area |-> Seen(f, a)'] = [a \in Area |-> Seen(f, a)]
  BY <1>1 DEF Running, SeenSame
<1>3. Memory' = Memory
  BY <1>1, <1>2 DEF Memory
<1>4. Memory[e]["stack"] = Seen(e, "stack") /\ e \in Running
  BY <1>1 DEF Memory, Running, Area
<1> QED BY <1>1, <1>3, <1>4 DEF Abstract!Begin

LEMMA StartKidStarts ==
  ASSUME IInv, Copies, NEW e \in Env, StartKid(e)
  PROVE  \E c \in Env : Abstract!Start(e, c)
<1>1. /\ status[e] = "run" /\ seen[e] # {}
      /\ \A f \in Env : status[f] = "run" => SeenSame(f)
      /\ seen' = [seen EXCEPT ![e] = {}]
  BY StartKidSeen
<1>2. PICK c \in Env : /\ status[c] # "run" /\ status' = [status EXCEPT ![c] = "run"]
                       /\ Seen(c, "data")' = Seen(e, "data")
                       /\ Seen(c, "stack")' \in seen[e]
  BY StartKidSeen
<1>3. /\ Running' = Running \cup {c} /\ c \notin Running /\ e \in Running
  BY <1>1, <1>2 DEF Running, IInv, TypeOK
<1>4. \A f \in Running : [a \in Area |-> Seen(f, a)'] = [a \in Area |-> Seen(f, a)]
  BY <1>1 DEF Running, SeenSame
<1>5. Memory[e]["data"] = Seen(e, "data")
  BY <1>3 DEF Memory, Area
<1>6. [a \in Area |-> Seen(c, a)'] = [data |-> Memory[e]["data"], stack |-> Seen(c, "stack")']
  BY <1>2, <1>5 DEF Area
<1>7. Memory' = [Memory EXCEPT ![c] = [data |-> Memory[e]["data"], stack |-> Seen(c, "stack")']]
  BY <1>3, <1>4, <1>6 DEF Memory
<1> QED BY <1>1, <1>2, <1>3, <1>7 DEF Abstract!Start

LEMMA EndStops ==
  ASSUME IInv, Copies, NEW e \in Env, Exit(e) \/ NoMemory(e)
  PROVE  Abstract!Stop(e)
<1>1. /\ status[e] = "run" /\ Running' = Running \ {e}
      /\ \A f \in Env : f # e /\ status[f] = "run" => SeenSame(f)
      /\ seen' = [seen EXCEPT ![e] = {}]
  BY EndSeen
<1>2. \A f \in Running : f # e => [a \in Area |-> Seen(f, a)'] = [a \in Area |-> Seen(f, a)]
  BY <1>1 DEF Running, SeenSame
<1>3. Memory' = [Memory EXCEPT ![e] = None]
  BY <1>1, <1>2 DEF Memory
<1>4. e \in Running
  BY <1>1 DEF Running
<1> QED BY <1>1, <1>3, <1>4 DEF Abstract!Stop

LEMMA NextMaps ==
  ASSUME IInv, Copies, [Next]_forkVars
  PROVE  Copies' /\ [Abstract!Next]_<<Running, Memory, seen>>
<1>1. ASSUME Silent PROVE Copies' /\ UNCHANGED <<Running, Memory, seen>>
  BY <1>1, SilentStutters DEF Silent
<1>2. ASSUME NEW e \in Env, NEW va \in Area, Fault(e, va) PROVE Silent
  BY <1>2, QuietSteps
<1>3. ASSUME NEW e \in Env, PageFix(e) PROVE Silent
  BY <1>3, QuietSteps, FixSilent, FixCopySilent DEF PageFix
<1>4. ASSUME NEW e \in Env, CowSteps(e) PROVE Silent
  BY <1>4, QuietSteps, LoopSilent, KidSilent DEF CowSteps
<1>5. ASSUME NEW e \in Env, EagerSteps(e) PROVE Silent
  BY <1>5, QuietSteps, LoopSilent, KidSilent, EagerCopySilent DEF EagerSteps
<1>6. ASSUME NEW e \in Env, NEW va \in Area, NEW v \in Value, Store(e, va, v)
      PROVE  Copies' /\ Abstract!Next
  <2>1. Copies' /\ Abstract!Write(e, va, v)
    BY <1>6, StoreSeen, StoreWrites
  <2> QED BY <2>1 DEF Abstract!Next, Abstract!Area, Area
<1>7. ASSUME NEW e \in Env, Exofork(e) PROVE Copies' /\ Abstract!Next
  BY <1>7, ExoforkSeen, ExoforkBegins DEF Abstract!Next
<1>8. ASSUME NEW e \in Env, StartKid(e) PROVE Copies' /\ Abstract!Next
  <2>1. Copies'
    BY <1>8, StartKidSeen
  <2>2. PICK c \in Env : Abstract!Start(e, c)
    BY <1>8, StartKidStarts
  <2> QED BY <2>1, <2>2 DEF Abstract!Next
<1>9. ASSUME NEW e \in Env, Exit(e) \/ NoMemory(e) PROVE Copies' /\ Abstract!Next
  BY <1>9, EndSeen, EndStops DEF Abstract!Next
<1>10. CASE UNCHANGED forkVars
  BY <1>1, <1>10, Quiet DEF forkVars, Given
<1> QED BY <1>1, <1>2, <1>3, <1>4, <1>5, <1>6, <1>7, <1>8, <1>9, <1>10 DEF Next

\* Sharing pages copy-on-write, page by page while the programs go on storing,
\* looks to every program like memory of its own, which a child gets from its
\* parent: fork, pgfault and dumbfork implement PrivateMemory.
THEOREM ForkIsPrivate == Spec => ImplementsPrivateMemory
<1>1. Init => Copies /\ Abstract!Init
  BY InitMaps
<1>2. IInv /\ Copies /\ [Next]_forkVars => Copies' /\ [Abstract!Next]_<<Running, Memory, seen>>
  BY NextMaps
<1>3. Abstract!memoryVars = <<Running, Memory, seen>>
  BY DEF Abstract!memoryVars
<1> QED BY <1>1, <1>2, <1>3, Inductive, PTL
    DEF Spec, ImplementsPrivateMemory, Abstract!Spec, Abstract!memoryVars
===============================================================================
