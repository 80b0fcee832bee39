------------------------------ MODULE MCCowFork ------------------------------
(***************************************************************************)
(* CowFork for TLC.  Either the first program forks two children in turn,  *)
(* or it and its child fork, with one slot in use by somebody else.        *)
(***************************************************************************)
EXTENDS CowFork, TLC

MCInit ==
  /\ Init
  /\ \/ forkers = {First} /\ \A e \in Env : status[e] # "setup"
     \/ \E e \in Env \ {First} :
          forkers = {First, e} /\ {f \in Env : status[f] = "setup"} = Env \ {First, e}

MCSpec == MCInit /\ [][Next]_forkVars

\* Which physical pages are used does not matter, only who shares them and what
\* they hold.
Sharers(e, va) == {x \in Env \X Va : pte[x[1]][x[2]] # None /\ pte[x[1]][x[2]].page = pte[e][va].page}
MCView ==
  <<status, eager, forkers, pc, kid, perm, fix, upcall, seen,
    [e \in Env |-> [va \in Va |->
       IF pte[e][va] = None THEN None
       ELSE <<pte[e][va].mode, content[pte[e][va].page], Sharers(e, va)>>]]>>

MCSymmetry == Permutations(Env \ {First})
==============================================================================
